---------------------------- MODULE Spec2Model ----------------------------
(***************************************************************************)
(* A model of the vexo music bot: the per-guild turn tracker and the       *)
(* discovery cycle (src/src/services/discovery.py) and the per-guild       *)
(* player, its queue and its playback loop (src/src/cogs/music.py,         *)
(* src/src/cogs/play.py, src/src/cogs/nowplaying.py).                      *)
(*                                                                         *)
(* Python's None is modelled by 0 where the values are ids (ids are        *)
(* positive: Discord snowflakes, item numbers).  List indexes are 0-based  *)
(* as in the source; a TLA+ sequence is read at index + 1.                 *)
(***************************************************************************)
EXTENDS Integers, Sequences, FiniteSets, TLC

\* ------------------------------------------------------------------ bounds
NumUsers == 3
NumPresent == 2
NumVideos == 2
MaxCands == 3
MaxHandlers == 2
MaxLoops == 2
MaxItems == 2
MaxSongs == 3
MaxIdlePasses == 6
MaxScored == 3
MaxScore == 2
MaxCalls == 3
MaxPrefCalls == 4
MaxQueued == 1
MaxRetries == 3
MaxPlayed == 3
MaxTop == 2

\* --------------------------------------------------------------- constants
None == 0
Users == 1..NumUsers
TheGuild == 1
OtherGuild == 2
PresentUsers == 1..NumPresent
VideoIds == 1..NumVideos
Pools == <<"library", "similar", "artist", "wildcard">>
DefaultWeight == 25
TopK == 8
IDLE_TIMEOUT == 300
SweepPeriod == 60
DaySeconds == 86400
pre_buffer == TRUE
MinTemp == 1
VECTOR_DIM == 128
GENRE_START == 0
GENRE_END == 64
ARTIST_START == 64
ARTIST_END == 80
TEMPORAL_START == 80
TEMPORAL_END == 96
ENERGY_START == 96
ENERGY_END == 112
NOVELTY_START == 112
NOVELTY_END == 128
One == 100
DefaultTemperature == 50
ExpUnit == 4
ProbUnit == 8

VARIABLES
    guild_members,   \* TurnTracker.guild_members: guild_id -> ordered user ids
    guild_index,     \* TurnTracker.guild_index:   guild_id -> current index
    tt_last,         \* history: the last TurnTracker call, its argument and the state before it
    tt_run,          \* history: current users seen since the last update_members (a window)
    d_pc,            \* get_next_song: "idle" (no call in progress) or the await it is suspended at
    d_turn_user,     \* get_next_song: turn_user_id (None before it is read)
    d_index0,        \* history: guild_index right after the call's update_members
                     \* (-1: no call yet, or a call without participants)
    d_weights,       \* get_next_song: the weights in effect
    d_passed,        \* history: the weights argument of the call (<<>>: None)
    d_window,        \* ids returned by get_recent_history_window
    d_bycount,       \* ids returned by get_recent_history(limit=20)
    d_tasks,         \* _gather_all_candidates: the pools invoked, in task order
    d_done,          \* _gather_all_candidates: number of pool tasks that have completed
    d_failed,        \* history: every pool task completed so far has raised
    d_all,           \* _gather_all_candidates: all_candidates (video ids), in result order
    d_cands,         \* the deduplicated candidates that entered scoring
    d_outcome,       \* the call's result: "pending", "none", "raised" or a song record
    queue,           \* GuildPlayer.queue: the items waiting, head first
    current,         \* GuildPlayer.current (None: no item)
    is_playing,      \* GuildPlayer.is_playing
    autoplay,        \* GuildPlayer.autoplay
    voice_client,    \* GuildPlayer.voice_client: "none" or "connected"
    vc_playing,      \* the loop task whose audio source the voice client plays (0: none)
    play_complete,   \* per loop task: its play_complete event is set
    h_kind,          \* per handler slot: the command it runs ("none": free)
    h_pc,            \* per handler slot: the await it is suspended at
    h_wait,          \* per handler slot: the new loop tasks that run before it resumes
    l_pc,            \* per loop task: "none" (never created), the await it is at, or "done"
    l_item,          \* per loop task: its local variable item
    l_wait,          \* per loop task: the new loop tasks that run before it resumes
    next_item,       \* the next fresh track id
    handed,          \* history: the items handed to put / put_at_front, in call order
    taken,           \* history: the items the loops dequeued with get_nowait, in order
    discarded,       \* history: the items removed from the queue by clear / stop
    session_id,      \* GuildPlayer.session_id (None: no session created yet)
    next_session,    \* the next fresh session id (create_session draws a uuid4)
    logged,          \* history: the session ids log_track has been called with
    fail_run,        \* history: stream resolutions that found nothing since a play last started
    idle_age,        \* seconds from GuildPlayer.last_activity to the clock's latest reading
    np_shown,        \* history: how the last _send_now_playing ended ("none": not called yet)
    has_url,         \* the items whose url field is set
    next_url,        \* GuildPlayer._next_url, as the item it was resolved for (None: unset)
    pb_created,      \* a _pre_buffer_next task has been created and has not run yet
    pb_resolving,    \* the items _pre_buffer_next tasks are resolving a stream URL for
    fn_call,         \* history: the last call of a vector_engine function, its arguments and result
    fn_first,        \* history: the first encode_song call, its arguments and result
    fn_count,        \* history: the number of vector_engine calls made
    prefs,           \* user_preferences rows of one user: <<type, key>> -> affinity_score
    pref_last,       \* history: the last PreferenceManager call and whether the user had opted out
    pref_count,      \* history: the number of PreferenceManager calls made
    players,         \* MusicCog.players: guild_id -> the GuildPlayer object and its fields
    queues,          \* the asyncio.Queue objects: object id -> the items waiting
    next_obj,        \* the next fresh object id
    op_guild,        \* history: the guild of the last operation (None: none yet)
    users_opted_out, \* users.opted_out of the user
    pw_call,         \* the PreferenceManager call between its opt-out check and its writes
    ap_pc,           \* the autoplay selection of _play_loop: where the loop is
    max_seconds,     \* _play_loop's max_seconds of this iteration
    ap_tries,        \* the passes of 'for _ in range(3)' begun in this iteration
    ap_item,         \* _play_loop's item (the discovered song; None: none)
    ap_current,      \* player.current in the autoplay selection
    ap_played,       \* history: for_user_id of the discovery songs that were played
    artist_call      \* PlayCog.play_artist: its tracks_to_add, the tracks left and queued_count

turn_hist == <<tt_last, tt_run>>
disc_vars == <<d_pc, d_turn_user, d_index0, d_weights, d_passed, d_window, d_bycount,
               d_tasks, d_done, d_failed, d_all, d_cands, d_outcome>>
buffer_vars == <<has_url, next_url, pb_created, pb_resolving>>
player_vars == <<queue, current, is_playing, autoplay, voice_client, vc_playing,
                 play_complete, h_kind, h_pc, h_wait, l_pc, l_item, l_wait,
                 next_item, handed, taken, discarded, session_id, next_session,
                 logged, fail_run, idle_age, np_shown, buffer_vars>>
session_vars == <<session_id, next_session, logged>>
discovery_side == <<guild_members, guild_index, turn_hist, disc_vars>>
lib_hist == <<fn_first, fn_count>>
privacy_vars == <<users_opted_out, pw_call>>
autoplay_vars == <<ap_pc, max_seconds, ap_tries, ap_item, ap_current, ap_played>>
pref_vars == <<prefs, pref_last, pref_count, privacy_vars, autoplay_vars, artist_call>>
guild_vars == <<players, queues, next_obj, op_guild>>
lib_vars == <<fn_call, lib_hist, pref_vars, guild_vars>>
program_vars == <<guild_members, guild_index, turn_hist, disc_vars, player_vars, pref_vars,
                  guild_vars>>
vars == <<guild_members, guild_index, tt_last, tt_run, disc_vars, player_vars, lib_vars>>

\* ------------------------------------------------------------ sequences
InList(m, list) == \E i \in 1..Len(list) : list[i] = m

ListSet(list) == {list[i] : i \in 1..Len(list)}

IsDistinct(list) == \A i, j \in 1..Len(list) : list[i] = list[j] => i = j

\* All duplicate-free sequences over S: what a voice channel's member list can be.
DistinctSeqs(S) ==
    UNION {{s \in [1..n -> S] : IsDistinct(s)} : n \in 0..Cardinality(S)}

Put(f, k, v) == [x \in DOMAIN f \cup {k} |-> IF x = k THEN v ELSE f[x]]

\* ------------------------------------------------------------ TurnTracker
\* new_list = [m for m in current if m in member_ids]  (current: the list so far)
KeepPresentNoFilter(current_list, member_ids) == current_list

KeepPresent(current_list, member_ids) ==
    SelectSeq(current_list, LAMBDA m : InList(m, member_ids))

\* for m in member_ids: if m not in new_list: new_list.append(m)
RECURSIVE AppendMissing(_, _)
AppendMissing(new_list, member_ids) ==
    IF member_ids = <<>> THEN new_list
    ELSE LET m == Head(member_ids)
         IN  AppendMissing(IF InList(m, new_list) THEN new_list
                           ELSE Append(new_list, m),
                           Tail(member_ids))

\* if self.guild_index[guild_id] >= len(new_list): self.guild_index[guild_id] = 0
AdjustIndexNoClamp(index, new_list) == index

AdjustIndex(index, new_list) ==
    IF index >= Len(new_list) THEN 0 ELSE index

\* The member list update_members leaves for guild_id.
MembersAfterUpdate(gm, guild_id, member_ids) ==
    IF guild_id \notin DOMAIN gm
    THEN member_ids
    ELSE AppendMissing(KeepPresent(gm[guild_id], member_ids), member_ids)

\* The index update_members leaves for guild_id.
IndexAfterUpdate(gm, gi, guild_id, member_ids) ==
    IF guild_id \notin DOMAIN gm
    THEN 0
    ELSE AdjustIndex(gi[guild_id], MembersAfterUpdate(gm, guild_id, member_ids))

\* get_current_user: None without members; list[idx] otherwise, an IndexError
\* (modelled by -1) when idx is out of range.
IndexErrorValue == -1

CurrentUser(gm, gi, guild_id) ==
    IF guild_id \notin DOMAIN gm \/ gm[guild_id] = <<>> THEN None
    ELSE LET idx == IF guild_id \in DOMAIN gi THEN gi[guild_id] ELSE 0
         IN  IF idx >= 0 /\ idx < Len(gm[guild_id])
             THEN gm[guild_id][idx + 1]
             ELSE IndexErrorValue

get_current_user(guild_id) == CurrentUser(guild_members, guild_index, guild_id)

\* (index + 1) % len(members)
NextIndexStay(index, n) == index

NextIndex(index, n) == (index + 1) % n

\* The index advance leaves for guild_id.
IndexAfterAdvance(gm, gi, guild_id) ==
    IF guild_id \notin DOMAIN gm \/ gm[guild_id] = <<>>
    THEN gi
    ELSE Put(gi, guild_id, NextIndex(gi[guild_id], Len(gm[guild_id])))

\* The window of current users: restarted by update_members, extended by advance,
\* at most len(members) + 1 long.
RunAfterAdvance(run, user, n) ==
    IF user = None THEN <<>>
    ELSE IF Len(run) >= n + 1 THEN Append(Tail(run), user)
    ELSE Append(run, user)

update_members(guild_id, member_ids) ==
    /\ UNCHANGED <<disc_vars, player_vars, lib_vars>>
    /\ guild_members' = Put(guild_members, guild_id,
                            MembersAfterUpdate(guild_members, guild_id, member_ids))
    /\ guild_index' = Put(guild_index, guild_id,
                          IndexAfterUpdate(guild_members, guild_index, guild_id, member_ids))
    /\ tt_last' = [op |-> "update", arg |-> member_ids,
                   known |-> guild_id \in DOMAIN guild_members,
                   old_members |-> IF guild_id \in DOMAIN guild_members
                                   THEN guild_members[guild_id] ELSE <<>>,
                   old_index |-> IF guild_id \in DOMAIN guild_index
                                 THEN guild_index[guild_id] ELSE 0]
    /\ tt_run' = LET u == CurrentUser(guild_members', guild_index', guild_id)
                 IN  IF u = None THEN <<>> ELSE <<u>>

advance(guild_id) ==
    /\ UNCHANGED <<disc_vars, player_vars, lib_vars>>
    /\ guild_index' = IndexAfterAdvance(guild_members, guild_index, guild_id)
    /\ guild_members' = guild_members
    /\ tt_last' = [op |-> "advance", arg |-> <<>>,
                   known |-> guild_id \in DOMAIN guild_members,
                   old_members |-> IF guild_id \in DOMAIN guild_members
                                   THEN guild_members[guild_id] ELSE <<>>,
                   old_index |-> IF guild_id \in DOMAIN guild_index
                                 THEN guild_index[guild_id] ELSE 0]
    /\ tt_run' = RunAfterAdvance(tt_run,
                                 CurrentUser(guild_members', guild_index', guild_id),
                                 IF guild_id \in DOMAIN guild_members
                                 THEN Len(guild_members[guild_id]) ELSE 0)

\* -------------------------------------------------------- DiscoveryEngine
\* DEFAULT_WEIGHTS
DEFAULT_WEIGHTS == [p \in ListSet(Pools) |-> DefaultWeight]

\* weights = weights or DEFAULT_WEIGHTS; if "library" not in weights: DEFAULT_WEIGHTS.
\* A weights mapping is a function from some pool names to integers; None is <<>>.
EffectiveWeights(weights) ==
    IF weights = <<>> \/ "library" \notin DOMAIN weights THEN DEFAULT_WEIGHTS ELSE weights

\* The weights the callers of get_next_song pass: music.py passes none.
WeightChoices == {<<>>}

\* weights.get(pool, 0) > 0
PoolActive(weights, pool) == pool \in DOMAIN weights /\ weights[pool] > 0

\* tasks: the pools with weight > 0, in the order library, similar, artist, wildcard
PoolTasks(weights) == SelectSeq(Pools, LAMBDA p : PoolActive(weights, p))

\* recent_yt_ids = set(window); recent_yt_ids.update(ids of the last 20 plays)
CooldownSet(window, bycount) == window \cup bycount

recent_yt_ids == CooldownSet(d_window, d_bycount)

\* deduped: keep the first occurrence of each id that is not in recent_yt_ids
RECURSIVE DedupeNoCooldown(_, _, _)
DedupeNoCooldown(all, recent, dedup_ids) ==
    IF all = <<>> THEN <<>>
    ELSE LET c == Head(all)
         IN  IF c \notin dedup_ids
             THEN <<c>> \o DedupeNoCooldown(Tail(all), recent, dedup_ids \cup {c})
             ELSE DedupeNoCooldown(Tail(all), recent, dedup_ids)

RECURSIVE Dedupe(_, _, _)
Dedupe(all, recent, dedup_ids) ==
    IF all = <<>> THEN <<>>
    ELSE LET c == Head(all)
         IN  IF c \notin dedup_ids /\ c \notin recent
             THEN <<c>> \o Dedupe(Tail(all), recent, dedup_ids \cup {c})
             ELSE Dedupe(Tail(all), recent, dedup_ids)

\* score_candidates: similarity plus random noise, sorted descending; the
\* similarities and the noise are arbitrary, so any order of the candidates.
Orderings(candidates) ==
    {s \in [1..Len(candidates) -> ListSet(candidates)] : ListSet(s) = ListSet(candidates)}

Min(a, b) == IF a < b THEN a ELSE b

\* softmax_select: None for an empty top-K, the only entry for one, else the
\* entry the random draw falls on (pick: its position among the top-K).
softmax_select_none_for_one(scored, top_k, pick) ==
    LET top == SubSeq(scored, 1, Min(top_k, Len(scored)))
    IN  IF Len(top) <= 1 THEN None ELSE top[pick]

softmax_select(scored, top_k, pick) ==
    LET top == SubSeq(scored, 1, Min(top_k, Len(scored)))
    IN  IF top = <<>> THEN None
        ELSE IF Len(top) = 1 THEN top[1]
        ELSE top[pick]

\* softmax_select with the draw computed.  scored is a list of <<candidate,
\* score>> pairs; scores and temperatures are in hundredths, math.exp is a
\* fixed-point stand-in (ExpUnit at 0, halving with each unit of the
\* exponent, 0 on underflow), probabilities are in 1/ProbUnit and random()
\* yields r in 0..ProbUnit-1.  Truncation can leave the cumulative sum below
\* the draw, as rounding can in the source: the loop then ends without a
\* return and the last entry of top is returned.
Max(a, b) == IF a > b THEN a ELSE b

RECURSIVE Pow2(_)
Pow2(n) == IF n = 0 THEN 1 ELSE 2 * Pow2(n - 1)

RECURSIVE SeqMax(_)
SeqMax(s) == IF Len(s) = 1 THEN s[1] ELSE Max(s[1], SeqMax(Tail(s)))

RECURSIVE SeqSum(_)
SeqSum(s) == IF s = <<>> THEN 0 ELSE s[1] + SeqSum(Tail(s))

exp_scaled(s, max_score, temp) == ExpUnit \div Pow2((max_score - s) \div temp)

RECURSIVE draw_loop(_, _, _, _)
draw_loop(probs, r, cumulative, i) ==
    IF i > Len(probs) THEN Len(probs)
    ELSE IF r <= cumulative + probs[i] THEN i
    ELSE draw_loop(probs, r, cumulative + probs[i], i + 1)

sample(top, temperature, r) ==
    LET scores == [i \in 1..Len(top) |-> top[i][2]]
        max_score == SeqMax(scores)
        temp == Max(temperature, MinTemp)
        exp_scores == [i \in 1..Len(top) |-> exp_scaled(scores[i], max_score, temp)]
        total == SeqSum(exp_scores)
        probs == [i \in 1..Len(top) |-> (exp_scores[i] * ProbUnit) \div total]
    IN  top[draw_loop(probs, r, 0, 1)][1]

softmax_select_whole_list(scored, top_k, temperature, r) ==
    IF scored = <<>> \/ top_k = 0 THEN None
    ELSE IF Len(scored) = 1 THEN scored[1][1]
    ELSE sample(scored, temperature, r)

softmax_select_drawn(scored, top_k, temperature, r) ==
    LET top == SubSeq(scored, 1, Min(top_k, Len(scored)))
    IN  IF top = <<>> THEN None
        ELSE IF Len(top) = 1 THEN top[1][1]
        ELSE sample(top, temperature, r)

\* ------------------------------------------------------- vector_engine
\* Vectors are functions on 0..VECTOR_DIM-1; floats are in hundredths (One
\* is 1.0).  Strings are drawn from a small vocabulary; str.lower().strip(),
\* the substring scan of GENRE_MAP and the two digests are tabulated for
\* that vocabulary with the values the source computes.
Dims == 0..(VECTOR_DIM - 1)

zero_vector_reused == IF fn_call.fn = "none" THEN [i \in Dims |-> 0] ELSE fn_call.result

zero_vector == [i \in Dims |-> 0]

Genres == {"pop", "Rock ", "canadian pop", "zydeco"}
Artists == {"", "Queen", " queen ", "Daft Punk"}
Sources == {"unknown", "library", "similar", "artist", "wildcard", "chart", "related"}

lower_strip(s) ==
    CASE s = "Rock " -> "rock"
      [] s = "Queen" -> "queen"
      [] s = " queen " -> "queen"
      [] s = "Daft Punk" -> "daft punk"
      [] s = " 90s" -> "90s"
      [] OTHER -> s

\* GENRE_MAP, the entries the vocabulary reaches.
GENRE_MAP == [g \in {"pop", "rock"} |-> IF g = "pop" THEN 0 ELSE 1]

\* The first key of GENRE_MAP with key in g or g in key ("": no such key).
first_substring_key(g) == IF g = "canadian pop" THEN "pop" ELSE ""

\* int(hashlib.md5(g.encode()).hexdigest()[:8], 16) % 64
md5_slot(g) == IF g = "zydeco" THEN 62 ELSE 0

\* int(chunk, 16) % 16 for the first four 8-digit chunks of the sha256 digest
sha256_dims(name) ==
    CASE name = "queen" -> <<7, 3, 5, 11>>
      [] name = "daft punk" -> <<6, 11, 9, 4>>

DECADE_MAP == [d \in {"1990s", "90s", "2020s"} |-> IF d = "2020s" THEN 7 ELSE 4]

SOURCE_DIM_MAP ==
    [src \in Sources \ {"unknown"} |->
        CASE src = "library" -> <<0, 100>>
          [] src = "similar" -> <<1, 85>>
          [] src = "artist" -> <<2, 75>>
          [] src = "wildcard" -> <<3, 50>>
          [] src = "chart" -> <<4, 60>>
          [] src = "related" -> <<5, 70>>]

artist_hash_dims(artist_name) ==
    LET h == sha256_dims(lower_strip(artist_name))
    IN  [i \in 1..4 |-> ARTIST_START + h[i]]

encode_genre(v, genre, weight) ==
    LET g == lower_strip(genre)
    IN  IF g \in DOMAIN GENRE_MAP
        THEN [v EXCEPT ![GENRE_START + GENRE_MAP[g]] = Max(@, weight)]
        ELSE IF first_substring_key(g) # ""
        THEN [v EXCEPT ![GENRE_START + GENRE_MAP[first_substring_key(g)]] =
                           Max(@, (weight * 70) \div One)]
        ELSE [v EXCEPT ![GENRE_START + md5_slot(g)] = Max(@, (weight * 40) \div One)]

RECURSIVE encode_genres(_, _)
encode_genres(v, genres) ==
    IF genres = <<>> THEN v
    ELSE encode_genres(encode_genre(v, Head(genres), One), Tail(genres))

encode_artist(v, artist) ==
    IF artist = "" THEN v
    ELSE LET dims == artist_hash_dims(artist)
         IN  [i \in Dims |-> IF \E k \in 1..4 : dims[k] = i THEN One ELSE v[i]]

encode_year(v, year) ==
    IF year # None /\ 1950 <= year /\ year <= 2030
    THEN LET decade_idx == Min((year - 1950) \div 10, 7)
         IN  [v EXCEPT ![TEMPORAL_START + decade_idx] = One,
                       ![TEMPORAL_START + 8 + decade_idx] = (year % 10) * 10]
    ELSE v

clamp_popularity_unclamped(popularity) == popularity

clamp_popularity(popularity) == Max(0, Min(One, popularity))

encode_popularity(v, popularity) ==
    LET pop == clamp_popularity(popularity)
        bucket == IF pop > 80 THEN 1 ELSE IF pop > 60 THEN 2 ELSE IF pop > 30 THEN 3 ELSE 4
    IN  [v EXCEPT ![ENERGY_START] = pop, ![ENERGY_START + bucket] = One]

encode_source(v, source) ==
    IF source \in DOMAIN SOURCE_DIM_MAP
    THEN [v EXCEPT ![NOVELTY_START + SOURCE_DIM_MAP[source][1]] = SOURCE_DIM_MAP[source][2]]
    ELSE v

encode_song(genres, artist, year, popularity, source) ==
    encode_source(
        encode_popularity(
            encode_year(encode_artist(encode_genres(zero_vector, genres), artist), year),
            popularity),
        source)

\* build_user_profile; the preference dicts are lists of <<key, score>> in
\* insertion order, liked_song_vectors a list of vectors (<<>>: None or []).
RECURSIVE profile_genres(_, _)
profile_genres(v, genre_prefs) ==
    IF genre_prefs = <<>> THEN v
    ELSE LET genre == Head(genre_prefs)[1]
             score == Head(genre_prefs)[2]
         IN  profile_genres(IF score > 0 THEN encode_genre(v, genre, score) ELSE v,
                            Tail(genre_prefs))

RECURSIVE profile_artists(_, _)
profile_artists(v, artist_prefs) ==
    IF artist_prefs = <<>> THEN v
    ELSE LET artist == Head(artist_prefs)[1]
             score == Head(artist_prefs)[2]
             dims == artist_hash_dims(artist)
         IN  profile_artists(
                 IF score > 0
                 THEN [i \in Dims |-> IF \E k \in 1..4 : dims[k] = i
                                      THEN Max(v[i], score) ELSE v[i]]
                 ELSE v,
                 Tail(artist_prefs))

RECURSIVE profile_decades(_, _)
profile_decades(v, decade_prefs) ==
    IF decade_prefs = <<>> THEN v
    ELSE LET d == lower_strip(Head(decade_prefs)[1])
             score == Head(decade_prefs)[2]
         IN  profile_decades(
                 IF d \in DOMAIN DECADE_MAP /\ score > 0
                 THEN [v EXCEPT ![TEMPORAL_START + DECADE_MAP[d]] = score]
                 ELSE v,
                 Tail(decade_prefs))

RECURSIVE profile_centroid(_, _, _)
profile_centroid(v, liked_song_vectors, n) ==
    IF liked_song_vectors = <<>> THEN v
    ELSE profile_centroid(
             [i \in Dims |-> v[i] + (Head(liked_song_vectors)[i] * 30) \div (n * One)],
             Tail(liked_song_vectors), n)

source_affinity_library_only(v) == [v EXCEPT ![NOVELTY_START + 0] = 40]

source_affinity(v) == [v EXCEPT ![NOVELTY_START + 0] = 40, ![NOVELTY_START + 1] = 30]

build_user_profile(genre_prefs, artist_prefs, decade_prefs, liked_song_vectors) ==
    source_affinity(
        profile_centroid(
            profile_decades(
                profile_artists(profile_genres(zero_vector, genre_prefs), artist_prefs),
                decade_prefs),
            liked_song_vectors, Len(liked_song_vectors)))

\* ---------------------------------------------------------- preferences
\* PreferenceManager over the user_preferences rows of one user.  Scores
\* are in hundredths; a row that does not exist reads as 0.0.
get_preference(rows, type, key) ==
    IF <<type, key>> \in DOMAIN rows THEN rows[<<type, key>>] ELSE 0

update_preference(rows, type, key, score) ==
    [k \in DOMAIN rows \cup {<<type, key>>} |->
        IF k = <<type, key>> THEN score ELSE rows[k]]

\* f"{(year // 10) * 10}s"
decade_of(year) ==
    CASE (year \div 10) * 10 = 1990 -> "1990s"
      [] (year \div 10) * 10 = 2020 -> "2020s"

RECURSIVE like_genres(_, _)
like_genres(rows, genres) ==
    IF genres = <<>> THEN rows
    ELSE like_genres(
             update_preference(rows, "genre", Head(genres),
                               Min(get_preference(rows, "genre", Head(genres)) + 10, One)),
             Tail(genres))

record_like(rows, song) ==
    LET after_genres == like_genres(rows, song.genres)
        artist == lower_strip(song.artist)
        after_artist ==
            update_preference(after_genres, "artist", artist,
                              Min(get_preference(after_genres, "artist", artist) + 20, One))
    IN  IF song.year # None
        THEN update_preference(after_artist, "decade", decade_of(song.year),
                 Min(get_preference(after_artist, "decade", decade_of(song.year)) + 5, One))
        ELSE after_artist

RECURSIVE dislike_genres(_, _)
dislike_genres(rows, genres) ==
    IF genres = <<>> THEN rows
    ELSE dislike_genres(
             update_preference(rows, "genre", Head(genres),
                               Max(get_preference(rows, "genre", Head(genres)) - 5, 0)),
             Tail(genres))

disliked_artist_score_unfloored(cur) == cur - 30

disliked_artist_score(cur) == Max(cur - 30, -One)

record_dislike(rows, song) ==
    LET after_genres == dislike_genres(rows, song.genres)
        artist == lower_strip(song.artist)
    IN  update_preference(after_genres, "artist", artist,
                          disliked_artist_score(get_preference(after_genres, "artist", artist)))

boost_artist(rows, artist_name, amount) ==
    update_preference(rows, "artist", lower_strip(artist_name),
                      Min(get_preference(rows, "artist", lower_strip(artist_name)) + amount, One))

\* learn_from_playlist: the Counter of each kind, as the number of
\* occurrences of a key among the tracks.
RECURSIVE Counted(_, _)
Counted(s, x) ==
    IF s = <<>> THEN 0
    ELSE (IF Head(s) = x THEN 1 ELSE 0) + Counted(Tail(s), x)

RECURSIVE Flatten(_)
Flatten(ss) == IF ss = <<>> THEN <<>> ELSE Head(ss) \o Flatten(Tail(ss))

learned_score(rows, type, key, count, total, hundredths) ==
    LET score == Min((count * One * 100) \div (total * hundredths), One)
        cur == get_preference(rows, type, key)
    IN  IF cur # 0 THEN (cur + score) \div 2 ELSE score

learn_from_playlist(rows, tracks) ==
    LET genres == Flatten([i \in 1..Len(tracks) |-> tracks[i].genres])
        artists == [i \in 1..Len(tracks) |-> lower_strip(tracks[i].artist)]
        decades == Flatten([i \in 1..Len(tracks) |->
                               IF tracks[i].release_year # None
                               THEN <<decade_of(tracks[i].release_year)>> ELSE <<>>])
        total == IF tracks # <<>> THEN Len(tracks) ELSE 1
        learned == {<<"genre", genres[i]>> : i \in 1..Len(genres)}
                       \cup {<<"artist", artists[i]>> : i \in 1..Len(artists)}
                       \cup {<<"decade", decades[i]>> : i \in 1..Len(decades)}
    IN  [k \in DOMAIN rows \cup learned |->
            IF k \notin learned THEN rows[k]
            ELSE IF k[1] = "genre"
            THEN learned_score(rows, "genre", k[2], Counted(genres, k[2]), total, 10)
            ELSE IF k[1] = "artist"
            THEN learned_score(rows, "artist", k[2], Counted(artists, k[2]), total, 5)
            ELSE learned_score(rows, "decade", k[2], Counted(decades, k[2]), total, 10)]

\* The index get_next_song leaves once the candidates are gathered: advance on
\* the no-candidates return and advance after softmax_select.
IndexAfterCycleKeepOnEmpty(gm, gi, guild_id, candidates) ==
    IF candidates = <<>> THEN gi ELSE IndexAfterAdvance(gm, gi, guild_id)

IndexAfterCycle(gm, gi, guild_id, candidates) ==
    IF candidates = <<>>
    THEN IndexAfterAdvance(gm, gi, guild_id)
    ELSE IndexAfterAdvance(gm, gi, guild_id)

\* DiscoveredSong(video_id=winner.video_id, ..., for_user_id=turn_user_id)
DiscoveredSong(video_id, turn_user_id) ==
    [kind |-> "song", video_id |-> video_id, for_user_id |-> turn_user_id]

\* The other ways a call ends or stands: "none" (returns None), "raised" (an
\* exception leaves get_next_song), "pending" (suspended at an await).
NoSong(kind) == [kind |-> kind, video_id |-> None, for_user_id |-> None]

DiscReset ==
    /\ d_turn_user' = None
    /\ d_index0' = -1
    /\ d_window' = {}
    /\ d_bycount' = {}
    /\ d_tasks' = <<>>
    /\ d_done' = 0
    /\ d_failed' = TRUE
    /\ d_all' = <<>>
    /\ d_cands' = <<>>

\* get_next_song up to its first await: the empty-list return, update_members,
\* get_current_user, the weights.
GetNextSongCall(guild_id, voice_member_ids, weights) ==
    /\ UNCHANGED <<player_vars, lib_vars>>
    /\ d_pc = "idle"
    /\ d_weights' = EffectiveWeights(weights)
    /\ d_passed' = weights
    /\ IF voice_member_ids = <<>>
       THEN /\ DiscReset
            /\ d_pc' = "idle"
            /\ d_outcome' = NoSong("none")
            /\ UNCHANGED <<guild_members, guild_index>>
       ELSE /\ guild_members' = Put(guild_members, guild_id,
                    MembersAfterUpdate(guild_members, guild_id, voice_member_ids))
            /\ guild_index' = Put(guild_index, guild_id,
                    IndexAfterUpdate(guild_members, guild_index, guild_id, voice_member_ids))
            /\ d_turn_user' = CurrentUser(guild_members', guild_index', guild_id)
            /\ d_index0' = guild_index'[guild_id]
            /\ d_window' = {}
            /\ d_bycount' = {}
            /\ d_tasks' = <<>>
            /\ d_done' = 0
            /\ d_failed' = TRUE
            /\ d_all' = <<>>
            /\ d_cands' = <<>>
            /\ IF d_turn_user' = None
               THEN d_pc' = "idle" /\ d_outcome' = NoSong("none")
               ELSE d_pc' = "history" /\ d_outcome' = NoSong("pending")
    /\ UNCHANGED turn_hist

\* Both history reads return: the cooldown set is built, _build_user_vector is awaited.
HistoryReturns(window, bycount) ==
    /\ UNCHANGED <<player_vars, lib_vars>>
    /\ d_pc = "history"
    /\ d_window' = window
    /\ d_bycount' = bycount
    /\ d_pc' = "profile"
    /\ UNCHANGED <<guild_members, guild_index, turn_hist, d_turn_user, d_index0,
                   d_weights, d_passed, d_tasks, d_done, d_failed, d_all, d_cands, d_outcome>>

\* An exception of a persistence read leaves get_next_song: nothing catches it.
HistoryRaises ==
    /\ UNCHANGED <<player_vars, lib_vars>>
    /\ d_pc = "history"
    /\ d_pc' = "idle"
    /\ d_outcome' = NoSong("raised")
    /\ UNCHANGED <<guild_members, guild_index, turn_hist, d_turn_user, d_index0,
                   d_weights, d_passed, d_window, d_bycount, d_tasks, d_done, d_failed, d_all, d_cands>>

\* _build_user_vector returns: the pool tasks are created and gathered.
ProfileBuilt ==
    /\ UNCHANGED <<player_vars, lib_vars>>
    /\ d_pc = "profile"
    /\ d_pc' = "gather"
    /\ d_tasks' = PoolTasks(d_weights)
    /\ UNCHANGED <<guild_members, guild_index, turn_hist, d_turn_user, d_index0,
                   d_weights, d_passed, d_window, d_bycount, d_done, d_failed, d_all, d_cands, d_outcome>>

\* _build_user_vector raises (its preference and reaction reads are not guarded).
ProfileRaises ==
    /\ UNCHANGED <<player_vars, lib_vars>>
    /\ d_pc = "profile"
    /\ d_pc' = "idle"
    /\ d_outcome' = NoSong("raised")
    /\ UNCHANGED <<guild_members, guild_index, turn_hist, d_turn_user, d_index0,
                   d_weights, d_passed, d_window, d_bycount, d_tasks, d_done, d_failed, d_all, d_cands>>

\* The next pool task returns its candidates: all_candidates.extend(result).
PoolReturns(result) ==
    /\ UNCHANGED <<player_vars, lib_vars>>
    /\ d_pc = "gather"
    /\ d_done < Len(d_tasks)
    /\ Len(d_all) + Len(result) <= MaxCands
    /\ d_done' = d_done + 1
    /\ d_all' = d_all \o result
    /\ d_failed' = FALSE
    /\ UNCHANGED <<guild_members, guild_index, turn_hist, d_pc, d_turn_user,
                   d_index0, d_weights, d_passed, d_window, d_bycount, d_tasks, d_cands, d_outcome>>

\* The next pool task raises: gather(return_exceptions=True) hands the exception
\* back as its result, which is logged and skipped.
PoolRaises ==
    /\ UNCHANGED <<player_vars, lib_vars>>
    /\ d_pc = "gather"
    /\ d_done < Len(d_tasks)
    /\ d_done' = d_done + 1
    /\ d_failed' = d_failed
    /\ UNCHANGED <<guild_members, guild_index, turn_hist, d_pc, d_turn_user,
                   d_index0, d_weights, d_passed, d_window, d_bycount, d_tasks, d_all, d_cands,
                   d_outcome>>

\* The gather is complete: deduplicate, score, select, advance, return.
FinishCycle(guild_id, scored, pick) ==
    /\ UNCHANGED <<player_vars, lib_vars>>
    /\ d_pc = "gather"
    /\ d_done = Len(d_tasks)
    /\ d_cands' = Dedupe(d_all, recent_yt_ids, {})
    /\ scored \in Orderings(d_cands')
    /\ guild_index' = IndexAfterCycle(guild_members, guild_index, guild_id, d_cands')
    /\ d_outcome' =
          IF d_cands' = <<>> THEN NoSong("none")
          ELSE LET winner == softmax_select(scored, TopK, pick)
               IN  IF winner = None THEN NoSong("none")
                   ELSE DiscoveredSong(winner, d_turn_user)
    /\ d_pc' = "idle"
    /\ UNCHANGED <<guild_members, turn_hist, d_turn_user, d_index0, d_weights, d_passed,
                   d_window, d_bycount, d_tasks, d_done, d_failed, d_all>>

\* ------------------------------------------------- GuildPlayer and commands
\* Tasks of the event loop.  A task runs from one await to the next without
\* interruption.  The awaited call of a suspended task completes at any time
\* after the task suspended, and the task resumes in completion order; a task
\* made by asyncio.create_task is scheduled at its creation.  So a new task runs
\* before the resumption of every task that suspended after it was created, and
\* after any task whose call had completed before: h_wait and l_wait hold, per
\* task, the new tasks it cannot overtake.
Handlers == 1..MaxHandlers

Loops == 1..MaxLoops

\* The loop tasks created and not yet run, given the loops' positions.
PendingStarts(lp) == {j \in Loops : lp[j] = "start"}

\* player.voice_client and player.voice_client.is_connected()
Connected == voice_client = "connected"

\* A loop task slot that holds no live task.
LoopFree(j) == l_pc[j] \in {"none", "done"}

HasFreeLoop == \E j \in Loops : LoopFree(j)

FreeLoop == CHOOSE j \in Loops : LoopFree(j) /\ \A k \in Loops : LoopFree(k) => j <= k

\* if not player.is_playing: asyncio.create_task(self._play_loop(player))
StartsLoop(playing) == ~playing

LoopsAfterCreate(lp) ==
    IF StartsLoop(is_playing) THEN [lp EXCEPT ![FreeLoop] = "start"] ELSE lp

\* The new task runs after the new tasks that were scheduled before it.
WaitAfterCreate(lw) ==
    IF StartsLoop(is_playing)
    THEN [lw EXCEPT ![FreeLoop] = PendingStarts(l_pc)]
    ELSE lw

\* asyncio.Queue.put on an unbounded queue: the item is appended, without suspending.
QueuePut(q, item) == Append(q, item)

\* player.queue.put_at_front(item): player.queue is an asyncio.Queue, which has
\* no such method; the call raises AttributeError and the queue is unchanged.
QueuePutAtFront(q, item) == q

\* voice_client.stop(): the source that plays is stopped and its after callback
\* sets play_complete of the play that started it.
CompleteAfterStop(pc) ==
    IF vc_playing = 0 THEN pc ELSE [pc EXCEPT ![vc_playing] = TRUE]

\* The waiter of play_complete becomes ready when the event is set: behind the
\* new tasks scheduled by then.
WaitAfterStop(lw) ==
    IF vc_playing = 0 THEN lw
    ELSE [lw EXCEPT ![vc_playing] = lw[vc_playing] \cup PendingStarts(l_pc)]

\* The song requests in progress: each may add one item.
SongRequests == Cardinality({k \in Handlers : h_kind[k] \in {"song", "front_song"}})

\* play_any from "player.autoplay = True" on: the loop is started if not playing;
\* the reply that follows changes nothing.
PlayAnyStarts(kind, in_voice) == kind = "any" /\ in_voice /\ Connected

\* /play song (both cogs) and /play any, from the defer to the next await: the
\* voice check; connect if not connected (a connect while another one is in
\* flight raises in the voice library and is reported as a failure to connect),
\* else the search (song) or the start of the loop (any).
CommandInvoked(i, kind, in_voice) ==
    /\ h_kind[i] = "none"
    /\ kind \in {"song", "front_song", "any"}
    /\ PlayAnyStarts(kind, in_voice) => (is_playing \/ HasFreeLoop)
    /\ LET pc == IF ~in_voice THEN "idle"
                 ELSE IF ~Connected
                      THEN IF \E k \in Handlers : h_pc[k] = "connect"
                           THEN "idle" ELSE "connect"
                      ELSE IF kind = "any" THEN "idle" ELSE "prepare"
       IN  /\ h_pc' = [h_pc EXCEPT ![i] = pc]
           /\ h_kind' = [h_kind EXCEPT ![i] = IF pc = "idle" THEN "none" ELSE kind]
    /\ autoplay' = IF PlayAnyStarts(kind, in_voice) THEN TRUE ELSE autoplay
    /\ l_pc' = IF PlayAnyStarts(kind, in_voice) THEN LoopsAfterCreate(l_pc) ELSE l_pc
    /\ l_wait' = IF PlayAnyStarts(kind, in_voice) THEN WaitAfterCreate(l_wait) ELSE l_wait
    /\ h_wait' = [h_wait EXCEPT ![i] =
                     IF h_kind'[i] = "none" THEN {} ELSE PendingStarts(l_pc')]
    /\ idle_age' = IF PlayAnyStarts(kind, in_voice) THEN 0 ELSE idle_age
    /\ UNCHANGED <<buffer_vars, lib_vars, discovery_side, np_shown, session_vars, fail_run, queue, current, is_playing,
                   voice_client, vc_playing, play_complete, l_item, next_item,
                   handed, taken, discarded>>

\* voice_channel.connect returns (player.voice_client is set) or raises.
AfterConnect(i, ok) ==
    /\ h_pc[i] = "connect" /\ h_wait[i] = {}
    /\ (ok /\ h_kind[i] = "any") => (is_playing \/ HasFreeLoop)
    /\ voice_client' = IF ok THEN "connected" ELSE voice_client
    /\ LET continues == ok /\ h_kind[i] # "any"
       IN  /\ h_pc' = [h_pc EXCEPT ![i] = IF continues THEN "prepare" ELSE "idle"]
           /\ h_kind' = [h_kind EXCEPT ![i] = IF continues THEN h_kind[i] ELSE "none"]
    /\ autoplay' = IF ok /\ h_kind[i] = "any" THEN TRUE ELSE autoplay
    /\ l_pc' = IF ok /\ h_kind[i] = "any" THEN LoopsAfterCreate(l_pc) ELSE l_pc
    /\ l_wait' = IF ok /\ h_kind[i] = "any" THEN WaitAfterCreate(l_wait) ELSE l_wait
    /\ h_wait' = [h_wait EXCEPT ![i] =
                     IF h_kind'[i] = "none" THEN {} ELSE PendingStarts(l_pc')]
    /\ idle_age' = IF ok /\ h_kind[i] = "any" THEN 0 ELSE idle_age
    /\ UNCHANGED <<buffer_vars, lib_vars, discovery_side, np_shown, session_vars, fail_run, queue, current, is_playing,
                   vc_playing, play_complete, l_item, next_item, handed, taken,
                   discarded>>

\* MusicCog.play_song once the search, the duration check and the persistence
\* calls have returned: put, stamp last_activity, start the loop if not playing;
\* the reply that follows changes nothing.
PlaySongEnqueue(i, found) ==
    /\ h_kind[i] = "song" /\ h_pc[i] = "prepare" /\ h_wait[i] = {}
    /\ found => (is_playing \/ HasFreeLoop)
    /\ h_pc' = [h_pc EXCEPT ![i] = "idle"]
    /\ h_kind' = [h_kind EXCEPT ![i] = "none"]
    /\ h_wait' = h_wait
    /\ queue' = IF found THEN QueuePut(queue, next_item) ELSE queue
    /\ handed' = IF found THEN Append(handed, [item |-> next_item, how |-> "put"])
                 ELSE handed
    /\ next_item' = IF found THEN next_item + 1 ELSE next_item
    /\ l_pc' = IF found THEN LoopsAfterCreate(l_pc) ELSE l_pc
    /\ l_wait' = IF found THEN WaitAfterCreate(l_wait) ELSE l_wait
    /\ idle_age' = IF found THEN 0 ELSE idle_age
    /\ UNCHANGED <<buffer_vars, lib_vars, discovery_side, np_shown, session_vars, fail_run, current, is_playing, autoplay,
                   voice_client, vc_playing, play_complete, l_item, taken, discarded>>

\* PlayCog.play_song at the same place: player.queue.put_at_front(item) raises,
\* the exception leaves the handler; no loop is started.
PlayCogSongEnqueue(i, found) ==
    /\ h_kind[i] = "front_song" /\ h_pc[i] = "prepare" /\ h_wait[i] = {}
    /\ queue' = IF found THEN QueuePutAtFront(queue, next_item) ELSE queue
    /\ handed' = IF found
                 THEN Append(handed, [item |-> next_item, how |-> "put_at_front"])
                 ELSE handed
    /\ next_item' = IF found THEN next_item + 1 ELSE next_item
    /\ h_pc' = [h_pc EXCEPT ![i] = "idle"]
    /\ h_kind' = [h_kind EXCEPT ![i] = "none"]
    /\ UNCHANGED <<buffer_vars, lib_vars, discovery_side, np_shown, session_vars, fail_run, idle_age, current, is_playing, autoplay, voice_client,
                   vc_playing, play_complete, h_wait, l_pc, l_item, l_wait, taken,
                   discarded>>

\* The Stop button up to "await player.voice_client.disconnect()": the queue is
\* emptied and playback stopped.
StopPressed(i) ==
    /\ h_kind[i] = "none"
    /\ voice_client # "none"
    /\ h_kind' = [h_kind EXCEPT ![i] = "stop"]
    /\ h_pc' = [h_pc EXCEPT ![i] = "disconnect"]
    /\ h_wait' = [h_wait EXCEPT ![i] = PendingStarts(l_pc)]
    /\ queue' = <<>>
    /\ discarded' = discarded \cup ListSet(queue)
    /\ play_complete' = CompleteAfterStop(play_complete)
    /\ l_wait' = WaitAfterStop(l_wait)
    /\ vc_playing' = 0
    /\ UNCHANGED <<buffer_vars, lib_vars, discovery_side, np_shown, session_vars, fail_run, idle_age, current, is_playing, autoplay, voice_client,
                   l_pc, l_item, next_item, handed, taken>>

\* disconnect() returns: player.voice_client = None; the reply that follows
\* changes nothing.
AfterDisconnect(i) ==
    /\ h_pc[i] = "disconnect" /\ h_wait[i] = {}
    /\ voice_client' = "none"
    /\ h_pc' = [h_pc EXCEPT ![i] = "idle"]
    /\ h_kind' = [h_kind EXCEPT ![i] = "none"]
    /\ UNCHANGED <<buffer_vars, lib_vars, discovery_side, np_shown, session_vars, fail_run, idle_age, queue, current, is_playing, autoplay, vc_playing,
                   play_complete, h_wait, l_pc, l_item, l_wait, next_item,
                   handed, taken, discarded>>

\* on_voice_state_update when the last listener has left the bot's channel:
\* the source that plays is stopped, then the handler awaits disconnect()
\* (it resumes in AfterDisconnect).
EveryoneLeft(i) ==
    /\ h_kind[i] = "none"
    /\ voice_client # "none"
    /\ h_kind' = [h_kind EXCEPT ![i] = "left"]
    /\ h_pc' = [h_pc EXCEPT ![i] = "disconnect"]
    /\ h_wait' = [h_wait EXCEPT ![i] = PendingStarts(l_pc)]
    /\ play_complete' = CompleteAfterStop(play_complete)
    /\ l_wait' = WaitAfterStop(l_wait)
    /\ vc_playing' = 0
    /\ UNCHANGED <<buffer_vars, lib_vars, discovery_side, np_shown, session_vars, fail_run, idle_age,
                   queue, current, is_playing, autoplay, voice_client, l_pc, l_item,
                   next_item, handed, taken, discarded>>

\* cog_unload: disconnect(force=True) closes the voice client (the source
\* that plays is stopped); player.voice_client keeps the closed client.
cog_unload ==
    /\ voice_client # "none"
    /\ voice_client' = "closed"
    /\ play_complete' = CompleteAfterStop(play_complete)
    /\ l_wait' = WaitAfterStop(l_wait)
    /\ vc_playing' = 0
    /\ UNCHANGED <<buffer_vars, lib_vars, discovery_side, np_shown, session_vars, fail_run, idle_age,
                   queue, current, is_playing, autoplay, h_kind, h_pc, h_wait, l_pc, l_item,
                   next_item, handed, taken, discarded>>

\* /skip: voice_client.stop() when something plays.
skip ==
    /\ voice_client # "none" /\ is_playing
    /\ play_complete' = CompleteAfterStop(play_complete)
    /\ l_wait' = WaitAfterStop(l_wait)
    /\ vc_playing' = 0
    /\ UNCHANGED <<buffer_vars, lib_vars, discovery_side, np_shown, session_vars, fail_run, idle_age, queue, current, is_playing, autoplay, voice_client,
                   h_kind, h_pc, h_wait, l_pc, l_item, next_item, handed,
                   taken, discarded>>

\* /clear: every queued item is removed with get_nowait.
clear ==
    /\ queue' = <<>>
    /\ discarded' = discarded \cup ListSet(queue)
    /\ UNCHANGED <<buffer_vars, lib_vars, discovery_side, np_shown, session_vars, fail_run, idle_age, current, is_playing, autoplay, voice_client,
                   vc_playing, play_complete, h_kind, h_pc, h_wait, l_pc,
                   l_item, l_wait, next_item, handed, taken>>

\* /autoplay enabled
autoplay_command(enabled) ==
    /\ autoplay' = enabled
    /\ UNCHANGED <<buffer_vars, lib_vars, discovery_side, np_shown, session_vars, fail_run, idle_age, queue, current, is_playing, voice_client,
                   vc_playing, play_complete, h_kind, h_pc, h_wait, l_pc,
                   l_item, l_wait, next_item, handed, taken, discarded>>

\* ------------------------------------------------------------- _play_loop
\* The loop leaves its while: the voice client is gone or not connected, or the
\* queue is empty with autoplay off (break).
LoopExitsOnlyDisconnected == ~Connected

LoopExitsOnlyIdle == queue = <<>> /\ ~autoplay

LoopExits == ~Connected \/ (queue = <<>> /\ ~autoplay)

\* The first await of the persistence block: the guild and session calls when
\* the player has no session id, else the song, user and log_track calls.
EntersPersistence == IF session_id = None THEN "session" ELSE "persist"

\* The top of an iteration, reached from the start of the task and from every
\* continue and fall-through: the loop exits through its finally, or awaits
\* discovery (empty queue, autoplay), or takes the head of the queue with
\* get_nowait, makes it current and stamps last_activity.  cur: player.current
\* on arrival; playing: player.is_playing on arrival.
Iterate(j, cur, playing) ==
    /\ l_pc' = [l_pc EXCEPT ![j] = IF LoopExits THEN "done"
                                   ELSE IF queue = <<>> THEN "discover"
                                   ELSE EntersPersistence]
    /\ is_playing' = IF LoopExits THEN FALSE ELSE playing
    /\ current' = IF LoopExits THEN None
                  ELSE IF queue = <<>> THEN cur
                  ELSE Head(queue)
    /\ l_item' = [l_item EXCEPT ![j] = IF LoopExits \/ queue = <<>> THEN None
                                       ELSE Head(queue)]
    /\ queue' = IF LoopExits \/ queue = <<>> THEN queue ELSE Tail(queue)
    /\ taken' = IF LoopExits \/ queue = <<>> THEN taken ELSE Append(taken, Head(queue))
    /\ idle_age' = IF LoopExits \/ queue = <<>> THEN idle_age ELSE 0

\* The loop task suspends at its next await, or has ended.
Suspended(lw, j) ==
    [lw EXCEPT ![j] = IF l_pc'[j] = "done" THEN {} ELSE PendingStarts(l_pc')]

\* The task runs for the first time: player.is_playing = True, first iteration.
\* (No play_complete event of this task exists yet.)
LoopStart(j) ==
    /\ l_pc[j] = "start" /\ l_wait[j] = {}
    /\ Iterate(j, current, TRUE)
    /\ play_complete' = [play_complete EXCEPT ![j] = FALSE]
    /\ h_wait' = [i \in Handlers |-> h_wait[i] \ {j}]
    /\ l_wait' = Suspended([k \in Loops |-> l_wait[k] \ {j}], j)
    /\ UNCHANGED <<buffer_vars, lib_vars, discovery_side, np_shown, session_vars, fail_run, autoplay, voice_client,
                   vc_playing, h_kind, h_pc, next_item, handed, discarded>>

\* What the loop does with the result of _get_discovery_song: with no item it
\* breaks out of the while (the finally runs).
PcAfterDiscoveryGoesOn(found) == EntersPersistence

PcAfterDiscovery(found) == IF found THEN EntersPersistence ELSE "done"

\* The setting read (its failure is swallowed) and _get_discovery_song return:
\* an item, which becomes current and stamps last_activity, or no item (the
\* engine returned none or raised and the chart fallback found nothing: break);
\* a chart fallback that raises leaves the loop through the same finally.
AfterDiscovery(j, found) ==
    /\ l_pc[j] = "discover" /\ l_wait[j] = {}
    /\ l_pc' = [l_pc EXCEPT ![j] = PcAfterDiscovery(found)]
    /\ l_item' = [l_item EXCEPT ![j] = IF found THEN next_item ELSE None]
    /\ current' = IF found THEN next_item
                  ELSE IF l_pc'[j] = "done" THEN None ELSE current
    /\ is_playing' = IF l_pc'[j] = "done" THEN FALSE ELSE is_playing
    /\ next_item' = IF found THEN next_item + 1 ELSE next_item
    /\ idle_age' = IF found THEN 0 ELSE idle_age
    /\ l_wait' = Suspended(l_wait, j)
    /\ UNCHANGED <<buffer_vars, lib_vars, discovery_side, np_shown, session_vars, fail_run, queue, autoplay,
                   voice_client, vc_playing, play_complete, h_kind, h_pc, h_wait,
                   handed, taken, discarded>>

\* Where the loop goes from the guild and session calls: on, inside the try, to
\* the song and log_track calls when create_session returned; to the except of
\* the block, and so to the stream URL, when one of the two calls raised.
PcAfterSessionLogsAnyway(ok) == "persist"

PcAfterSessionEndsLoop(ok) == IF ok THEN "persist" ELSE "done"

PcAfterSession(ok) == IF ok THEN "persist" ELSE "resolve"

\* guild_crud.get_or_create and playback_crud.create_session return (the new id
\* is stored in player.session_id) or one of them raises (caught, logged).
AfterSession(j, ok) ==
    /\ l_pc[j] = "session" /\ l_wait[j] = {}
    /\ l_pc' = [l_pc EXCEPT ![j] = PcAfterSession(ok)]
    /\ session_id' = IF ok THEN next_session ELSE session_id
    /\ next_session' = IF ok THEN next_session + 1 ELSE next_session
    /\ is_playing' = IF l_pc'[j] = "done" THEN FALSE ELSE is_playing
    /\ current' = IF l_pc'[j] = "done" THEN None ELSE current
    /\ l_wait' = Suspended(l_wait, j)
    /\ UNCHANGED <<buffer_vars, lib_vars, discovery_side, np_shown, logged, fail_run, idle_age, queue, autoplay,
                   voice_client, vc_playing, play_complete, h_kind, h_pc, h_wait,
                   l_item, next_item, handed, taken, discarded>>

\* The song and user calls return and log_track is called with
\* player.session_id (calls), or one of the calls before it raises (caught): in
\* both cases the stream URL is awaited next.
AfterPersist(j, calls) ==
    /\ l_pc[j] = "persist" /\ l_wait[j] = {}
    /\ l_pc' = [l_pc EXCEPT ![j] = "resolve"]
    /\ logged' = IF calls THEN logged \cup {session_id} ELSE logged
    /\ l_wait' = Suspended(l_wait, j)
    /\ UNCHANGED <<buffer_vars, lib_vars, discovery_side, np_shown, session_id, next_session, fail_run, idle_age,
                   queue, current, is_playing, autoplay, voice_client, vc_playing,
                   play_complete, h_kind, h_pc, h_wait, l_item, next_item, handed,
                   taken, discarded>>

\* get_stream_url returns a URL (the audio source is probed next), returns
\* nothing (continue), or raises once its retries are used up: nothing in the
\* loop catches it, the finally runs and the task ends.
\* buffering: the specification follows the url fields and the pre-buffer
\* tasks; the loop and the handlers never read them, so a specification
\* that does not follow them has the same runs of everything else.
PlayingAfterRaiseKept(playing) == playing

\* finally: player.is_playing = False, also when an exception leaves the loop
PlayingAfterRaise(playing) == FALSE

AfterResolve(j, outcome, buffering) ==
    /\ l_pc[j] = "resolve" /\ l_wait[j] = {}
    /\ outcome \in {"url", "nothing", "raises"}
    /\ CASE outcome = "url" ->
              /\ l_pc' = [l_pc EXCEPT ![j] = "probe"]
              /\ UNCHANGED <<queue, current, is_playing, l_item, taken, idle_age>>
         [] outcome = "nothing" ->
              Iterate(j, current, is_playing)
         [] outcome = "raises" ->
              /\ l_pc' = [l_pc EXCEPT ![j] = "done"]
              /\ l_item' = [l_item EXCEPT ![j] = None]
              /\ is_playing' = PlayingAfterRaise(is_playing)
              /\ current' = None
              /\ UNCHANGED <<queue, taken, idle_age>>
    /\ fail_run' = IF outcome = "nothing" THEN fail_run + 1 ELSE fail_run
    /\ has_url' = IF outcome = "url" /\ buffering THEN has_url \cup {l_item[j]} ELSE has_url
    /\ pb_created' = (pb_created \/ (outcome = "url" /\ buffering /\ pre_buffer /\ queue # <<>>))
    /\ UNCHANGED <<next_url, pb_resolving>>
    /\ l_wait' = Suspended(l_wait, j)
    /\ UNCHANGED <<lib_vars, discovery_side, np_shown, session_vars, autoplay, voice_client, vc_playing,
                   play_complete, h_kind, h_pc, h_wait, next_item, handed, discarded>>

\* _pre_buffer_next up to its await: nothing to do for an empty queue or a
\* head that has its url, else the head is captured and resolution starts.
PreBufferStart ==
    /\ pb_created
    /\ pb_created' = FALSE
    /\ pb_resolving' = IF queue # <<>> /\ Head(queue) \notin has_url
                       THEN pb_resolving \cup {Head(queue)}
                       ELSE pb_resolving
    /\ UNCHANGED <<has_url, next_url>>
    /\ UNCHANGED <<lib_vars, discovery_side, np_shown, session_vars, fail_run, idle_age, queue,
                   current, is_playing, autoplay, voice_client, vc_playing, play_complete,
                   h_kind, h_pc, h_wait, l_pc, l_item, l_wait, next_item, handed, taken,
                   discarded>>

\* _pre_buffer_next after get_stream_url: a URL is stored on the captured
\* item and in _next_url, with no look at the queue; no URL, or an
\* exception, changes nothing.
PreBufferResolved(buffered, found) ==
    /\ buffered \in pb_resolving
    /\ pb_resolving' = pb_resolving \ {buffered}
    /\ IF found
       THEN /\ has_url' = has_url \cup {buffered}
            /\ next_url' = buffered
       ELSE UNCHANGED <<has_url, next_url>>
    /\ UNCHANGED pb_created
    /\ UNCHANGED <<lib_vars, discovery_side, np_shown, session_vars, fail_run, idle_age, queue,
                   current, is_playing, autoplay, voice_client, vc_playing, play_complete,
                   h_kind, h_pc, h_wait, l_pc, l_item, l_wait, next_item, handed, taken,
                   discarded>>

\* voice_client.play raises when not connected or when a source already plays.
PlayRaises == ~Connected \/ vc_playing # 0

\* FFmpegOpusAudio.from_probe returns and voice_client.play starts the source
\* (then the now-playing message is awaited); a failure of either is caught by
\* the except of the play step: continue, with current left as it is.
AfterProbe(j, probed) ==
    /\ l_pc[j] = "probe" /\ l_wait[j] = {}
    /\ IF probed /\ ~PlayRaises
       THEN /\ vc_playing' = j
            /\ play_complete' = [play_complete EXCEPT ![j] = FALSE]
            /\ l_pc' = [l_pc EXCEPT ![j] = "now_playing"]
            /\ fail_run' = 0
            /\ UNCHANGED <<queue, current, is_playing, l_item, taken, idle_age>>
       ELSE /\ Iterate(j, current, is_playing)
            /\ UNCHANGED <<vc_playing, play_complete, fail_run>>
    /\ l_wait' = Suspended(l_wait, j)
    /\ UNCHANGED <<buffer_vars, lib_vars, discovery_side, np_shown, session_vars, autoplay, voice_client, h_kind, h_pc,
                   h_wait, next_item, handed, discarded>>

\* After "await play_complete.wait()": with a history id the completion is
\* recorded (awaited); without, current = None and the next iteration.
AfterSong(j, has_history) ==
    IF has_history
    THEN /\ l_pc' = [l_pc EXCEPT ![j] = "finalize"]
         /\ UNCHANGED <<queue, current, is_playing, l_item, taken, idle_age>>
    ELSE Iterate(j, None, is_playing)

\* How _send_now_playing can end: the embed was sent; the send or the
\* rendering raised; no text channel (or no current item) was found.
Presentations == {"sent", "failed", "no_channel"}

\* Whether the end of _send_now_playing reaches the except of the play step:
\* never, the deletion of the old message and the send have their own
\* try/except and the two early returns raise nothing.
NowPlayingRaisesOnFailure(shown) == shown = "failed"

NowPlayingRaises(shown) == FALSE

\* _send_now_playing returns: the loop waits for play_complete, without
\* suspending when the event is already set.
AfterNowPlaying(j, has_history, shown) ==
    /\ l_pc[j] = "now_playing" /\ l_wait[j] = {}
    /\ shown \in Presentations
    /\ np_shown' = shown
    /\ IF NowPlayingRaises(shown)
       THEN Iterate(j, current, is_playing)
       ELSE IF play_complete[j]
       THEN AfterSong(j, has_history)
       ELSE /\ l_pc' = [l_pc EXCEPT ![j] = "wait"]
            /\ UNCHANGED <<queue, current, is_playing, l_item, taken, idle_age>>
    /\ l_wait' = Suspended(l_wait, j)
    /\ UNCHANGED <<buffer_vars, lib_vars, discovery_side, session_vars, fail_run, autoplay, voice_client,
                   vc_playing, play_complete, h_kind, h_pc, h_wait, next_item,
                   handed, discarded>>

\* play_complete.wait() returns: the event is set.  The wait has no timeout.
AfterWait(j, has_history) ==
    /\ l_pc[j] = "wait" /\ l_wait[j] = {}
    /\ play_complete[j]
    /\ AfterSong(j, has_history)
    /\ l_wait' = Suspended(l_wait, j)
    /\ UNCHANGED <<buffer_vars, lib_vars, discovery_side, np_shown, session_vars, fail_run, autoplay, voice_client,
                   vc_playing, play_complete, h_kind, h_pc, h_wait, next_item,
                   handed, discarded>>

\* mark_completed returns or fails (caught): current = None, next iteration.
AfterFinalize(j) ==
    /\ l_pc[j] = "finalize" /\ l_wait[j] = {}
    /\ Iterate(j, None, is_playing)
    /\ l_wait' = Suspended(l_wait, j)
    /\ UNCHANGED <<buffer_vars, lib_vars, discovery_side, np_shown, session_vars, fail_run, autoplay, voice_client,
                   vc_playing, play_complete, h_kind, h_pc, h_wait, next_item,
                   handed, discarded>>

\* The source that plays reaches its end: the after callback sets play_complete.
SongEnds ==
    /\ vc_playing # 0
    /\ play_complete' = CompleteAfterStop(play_complete)
    /\ l_wait' = WaitAfterStop(l_wait)
    /\ vc_playing' = 0
    /\ UNCHANGED <<buffer_vars, lib_vars, discovery_side, np_shown, session_vars, fail_run, idle_age, queue, current, is_playing, autoplay, voice_client,
                   h_kind, h_pc, h_wait, l_pc, l_item, next_item, handed,
                   taken, discarded>>

\* ------------------------------------------------------- _idle_check_loop
\* (now - player.last_activity).seconds: the seconds field of the timedelta,
\* which leaves out its whole days.
TimedeltaSeconds(age) == age % DaySeconds

\* not player.is_playing and (now - player.last_activity).seconds > IDLE_TIMEOUT,
\* for a player whose voice client is connected
SweepDisconnects(age) == Connected /\ ~is_playing /\ TimedeltaSeconds(age) > IDLE_TIMEOUT

\* One pass of the sweep: asyncio.sleep(60) returns, the clock is read and the
\* player is disconnected if idle (disconnect() ends whatever source plays,
\* then player.voice_client = None).  Nothing else is examined or changed:
\* is_playing in particular.
IdleCheckPass ==
    /\ idle_age' = idle_age + SweepPeriod
    /\ IF SweepDisconnects(idle_age')
       THEN /\ voice_client' = "none"
            /\ play_complete' = CompleteAfterStop(play_complete)
            /\ l_wait' = WaitAfterStop(l_wait)
            /\ vc_playing' = 0
       ELSE UNCHANGED <<voice_client, play_complete, l_wait, vc_playing>>
    /\ UNCHANGED <<buffer_vars, lib_vars, discovery_side, np_shown, session_vars, fail_run, queue, current, is_playing,
                   autoplay, h_kind, h_pc, h_wait, l_pc, l_item, next_item, handed,
                   taken, discarded>>

\* n passes of the sweep in a row with nothing else in between: the first
\* pass that finds the player idle disconnects it, the later ones find it
\* disconnected.
IdleCheckPasses(n) ==
    /\ idle_age' = idle_age + n * SweepPeriod
    /\ IF \E k \in 1..n : SweepDisconnects(idle_age + k * SweepPeriod)
       THEN /\ voice_client' = "none"
            /\ play_complete' = CompleteAfterStop(play_complete)
            /\ l_wait' = WaitAfterStop(l_wait)
            /\ vc_playing' = 0
       ELSE UNCHANGED <<voice_client, play_complete, l_wait, vc_playing>>
    /\ UNCHANGED <<buffer_vars, lib_vars, discovery_side, np_shown, session_vars, fail_run, queue, current, is_playing,
                   autoplay, h_kind, h_pc, h_wait, l_pc, l_item, next_item, handed,
                   taken, discarded>>

\* A day goes by while a source plays and nothing touches the player (a long
\* track, or a transport that never reports the end): every pass of the sweep
\* in between finds is_playing true and leaves the player alone.
DayPassesPlaying ==
    /\ is_playing /\ vc_playing # 0
    /\ idle_age' = idle_age + DaySeconds
    /\ UNCHANGED <<buffer_vars, lib_vars, discovery_side, np_shown, session_vars, fail_run, queue, current, is_playing,
                   autoplay, voice_client, vc_playing, play_complete, h_kind, h_pc,
                   h_wait, l_pc, l_item, l_wait, next_item, handed, taken, discarded>>

\* ------------------------------------------------------------------ Init
TurnInit ==
    /\ guild_members = <<>>
    /\ guild_index = <<>>
    /\ tt_last = [op |-> "none", arg |-> <<>>, known |-> FALSE,
                  old_members |-> <<>>, old_index |-> 0]
    /\ tt_run = <<>>

DiscInit ==
    /\ d_pc = "idle"
    /\ d_turn_user = None
    /\ d_index0 = -1
    /\ d_weights = DEFAULT_WEIGHTS
    /\ d_passed = <<>>
    /\ d_window = {}
    /\ d_bycount = {}
    /\ d_tasks = <<>>
    /\ d_done = 0
    /\ d_failed = TRUE
    /\ d_all = <<>>
    /\ d_cands = <<>>
    /\ d_outcome = NoSong("none")

PlayerInit ==
    /\ queue = <<>>
    /\ current = None
    /\ is_playing = FALSE
    /\ autoplay = TRUE
    /\ voice_client = "none"
    /\ vc_playing = 0
    /\ play_complete = [j \in Loops |-> FALSE]
    /\ h_kind = [i \in Handlers |-> "none"]
    /\ h_pc = [i \in Handlers |-> "idle"]
    /\ h_wait = [i \in Handlers |-> {}]
    /\ l_pc = [j \in Loops |-> "none"]
    /\ l_item = [j \in Loops |-> None]
    /\ l_wait = [j \in Loops |-> {}]
    /\ next_item = 1
    /\ handed = <<>>
    /\ taken = <<>>
    /\ discarded = {}
    /\ session_id = None
    /\ next_session = 1
    /\ logged = {}
    /\ fail_run = 0
    /\ idle_age = 0
    /\ np_shown = "none"
    /\ has_url = {}
    /\ next_url = None
    /\ pb_created = FALSE
    /\ pb_resolving = {}

\* item = None, player.current = None
NoItem == [for_user_id |-> None, duration_seconds |-> None]

\* The loop at the top of an iteration, queue empty, autoplay on.
NoArtistCall == [tracks_to_add |-> <<>>, left |-> 0, queued_count |-> 0]

AutoplayInit ==
    /\ ap_pc = "setting"
    /\ max_seconds = 0
    /\ ap_tries = 0
    /\ ap_item = NoItem
    /\ ap_current = NoItem
    /\ ap_played = <<>>

LibInit ==
    /\ fn_call = [fn |-> "none"]
    /\ fn_first = [fn |-> "none"]
    /\ fn_count = 0
    /\ prefs = <<>>
    /\ pref_last = <<"none", FALSE>>
    /\ pref_count = 0
    /\ users_opted_out = FALSE
    /\ pw_call = [fn |-> "none"]
    /\ AutoplayInit /\ artist_call = NoArtistCall
    /\ players = <<>>
    /\ queues = <<>>
    /\ next_obj = 1
    /\ op_guild = None

Init == TurnInit /\ DiscInit /\ PlayerInit /\ LibInit

\* ------------------------------------------- SpecTurn: the TurnTracker alone
TurnUpdate == \E ids \in DistinctSeqs(Users) : update_members(TheGuild, ids)

TurnAdvance == advance(TheGuild)

NextTurn == TurnUpdate \/ TurnAdvance

SpecTurn == Init /\ [][NextTurn]_vars

\* ------------------------------------- SpecDisc: get_next_song, call after call
SeqsUpTo(S, n) == UNION {[1..k -> S] : k \in 0..n}

DiscCall ==
    /\ d_pc = "idle"
    /\ \E ids \in DistinctSeqs(PresentUsers), w \in WeightChoices :
           GetNextSongCall(TheGuild, ids, w)

DiscHistoryReturns ==
    /\ d_pc = "history"
    /\ \E window \in SUBSET VideoIds, bycount \in SUBSET VideoIds :
           HistoryReturns(window, bycount)

DiscPoolReturns ==
    /\ d_pc = "gather"
    /\ d_done < Len(d_tasks)
    /\ \E result \in SeqsUpTo(VideoIds, MaxCands - Len(d_all)) : PoolReturns(result)

DiscFinish ==
    /\ d_pc = "gather"
    /\ d_done = Len(d_tasks)
    /\ \E scored \in Orderings(Dedupe(d_all, recent_yt_ids, {})) :
           \E pick \in 1..Min(TopK, IF scored = <<>> THEN 1 ELSE Len(scored)) :
               FinishCycle(TheGuild, scored, pick)

NextDisc ==
    \/ DiscCall
    \/ DiscHistoryReturns
    \/ HistoryRaises
    \/ ProfileBuilt
    \/ ProfileRaises
    \/ DiscPoolReturns
    \/ PoolRaises
    \/ DiscFinish

SpecDisc == Init /\ [][NextDisc]_vars

\* --------------- SpecWeights: get_next_song called with any weights mapping
\* The mappings a caller can pass: None, a dict with a weight (0, or a positive
\* one) for each of the four pools, or one of the shape that /settings
\* discovery_weights stores, for similar, artist and wildcard alone.
WeightDomains == {ListSet(Pools), ListSet(Pools) \ {"library"}}

WeightMappings == {<<>>} \cup UNION {[D -> {0, DefaultWeight}] : D \in WeightDomains}

DiscCallWeighted ==
    /\ d_pc = "idle"
    /\ \E ids \in DistinctSeqs(PresentUsers), w \in WeightMappings :
           GetNextSongCall(TheGuild, ids, w)

NextWeights ==
    \/ DiscCallWeighted
    \/ DiscHistoryReturns
    \/ HistoryRaises
    \/ ProfileBuilt
    \/ ProfileRaises
    \/ DiscPoolReturns
    \/ PoolRaises
    \/ DiscFinish

SpecWeights == Init /\ [][NextWeights]_vars

\* softmax_select alone: the initial states hold every call within the
\* bounds (the scored list, top_k, the temperature and the draw), the one
\* action runs the call.
ScoredLists ==
    UNION {{s \in [1..n -> (1..MaxScored) \X (0..MaxScore)] :
               \A i, j \in 1..n : i # j => s[i][1] # s[j][1]} : n \in 0..MaxScored}

Temperatures == {0, MinTemp, DefaultTemperature}

SelectCalls ==
    [fn : {"softmax_select"}, scored : ScoredLists, top_k : 0..(MaxScored + 1),
     temperature : Temperatures, r : 0..(ProbUnit - 1), done : {FALSE}, result : {None}]

InitSelect ==
    /\ TurnInit /\ DiscInit /\ PlayerInit
    /\ prefs = <<>> /\ pref_last = <<"none", FALSE>> /\ pref_count = 0
    /\ users_opted_out = FALSE /\ pw_call = [fn |-> "none"] /\ AutoplayInit /\ artist_call = NoArtistCall
    /\ players = <<>> /\ queues = <<>> /\ next_obj = 1 /\ op_guild = None
    /\ fn_first = [fn |-> "none"] /\ fn_count = 0
    /\ fn_call \in SelectCalls

SoftmaxSelectReturns ==
    /\ fn_call.fn = "softmax_select" /\ ~fn_call.done
    /\ fn_call' = [fn_call EXCEPT
                       !.done = TRUE,
                       !.result = softmax_select_drawn(fn_call.scored, fn_call.top_k,
                                                       fn_call.temperature, fn_call.r)]
    /\ UNCHANGED <<program_vars, lib_hist>>

NextSelect == SoftmaxSelectReturns

SpecSelect == InitSelect /\ [][NextSelect]_vars

\* encode_song alone: the initial states hold every call within the
\* vocabulary, the one action runs the call.
GenreLists == {<<>>} \cup {<<g>> : g \in Genres}
                  \cup {<<"canadian pop", "pop">>, <<"pop", "zydeco">>, <<"Rock ", "zydeco">>}
Years == {None, 1949, 1950, 1999, 2025, 2030, 2031}
Popularities == {-50, 0, 30, 31, 60, 61, 80, 81, 100, 150}

EncodeCalls ==
    [fn : {"encode_song"}, genres : GenreLists, artist : Artists, year : Years,
     popularity : Popularities, source : Sources, done : {FALSE}, result : {<<>>}]

InitEncode ==
    /\ TurnInit /\ DiscInit /\ PlayerInit
    /\ prefs = <<>> /\ pref_last = <<"none", FALSE>> /\ pref_count = 0
    /\ users_opted_out = FALSE /\ pw_call = [fn |-> "none"] /\ AutoplayInit /\ artist_call = NoArtistCall
    /\ players = <<>> /\ queues = <<>> /\ next_obj = 1 /\ op_guild = None
    /\ fn_first = [fn |-> "none"] /\ fn_count = 0
    /\ fn_call \in EncodeCalls

EncodeSongReturns ==
    /\ fn_call.fn = "encode_song" /\ ~fn_call.done
    /\ fn_call' = [fn_call EXCEPT
                       !.done = TRUE,
                       !.result = encode_song(fn_call.genres, fn_call.artist, fn_call.year,
                                              fn_call.popularity, fn_call.source)]
    /\ UNCHANGED <<program_vars, lib_hist>>

NextEncode == EncodeSongReturns

SpecEncode == InitEncode /\ [][NextEncode]_vars

\* retry_with_backoff around one wrapped coroutine: the initial states hold
\* the decorator's arguments, each attempt returns or raises, the wrapper
\* sleeps between attempts.  Times are in hundredths of a second.
StreamUrlRetries == 2
Jitters == {0, 50, One}

RetryCalls ==
    [fn : {"retry_with_backoff"}, retries : 0..MaxRetries, backoff_in_seconds : {1, 2},
     x : {0}, calls : {0}, sleeps : {<<>>}, pc : {"calling"}]

InitRetry ==
    /\ TurnInit /\ DiscInit /\ PlayerInit
    /\ prefs = <<>> /\ pref_last = <<"none", FALSE>> /\ pref_count = 0
    /\ users_opted_out = FALSE /\ pw_call = [fn |-> "none"] /\ AutoplayInit /\ artist_call = NoArtistCall
    /\ players = <<>> /\ queues = <<>> /\ next_obj = 1 /\ op_guild = None
    /\ fn_first = [fn |-> "none"] /\ fn_count = 0
    /\ fn_call \in RetryCalls

retries_exhausted_late(x, retries) == x > retries

\* if x == retries: raise
retries_exhausted(x, retries) == x = retries

\* backoff_in_seconds * 2 ** x + random.uniform(0, 1)
backoff_sleep(backoff_in_seconds, x, jitter) == backoff_in_seconds * Pow2(x) * One + jitter

\* return await func(*args, **kwargs)
WrappedReturns ==
    /\ fn_call.fn = "retry_with_backoff" /\ fn_call.pc = "calling"
    /\ fn_call' = [fn_call EXCEPT !.calls = @ + 1, !.pc = "returned"]
    /\ UNCHANGED <<program_vars, lib_hist>>

\* except Exception: re-raise when the retries are used up, else sleep
WrappedRaises ==
    /\ fn_call.fn = "retry_with_backoff" /\ fn_call.pc = "calling"
    /\ \E jitter \in Jitters :
           fn_call' =
               IF retries_exhausted(fn_call.x, fn_call.retries)
               THEN [fn_call EXCEPT !.calls = @ + 1, !.pc = "raised"]
               ELSE [fn_call EXCEPT
                         !.calls = @ + 1, !.pc = "sleeping",
                         !.sleeps = Append(@, backoff_sleep(fn_call.backoff_in_seconds,
                                                            fn_call.x, jitter))]
    /\ UNCHANGED <<program_vars, lib_hist>>

\* await asyncio.sleep(sleep); x += 1
SleepEnds ==
    /\ fn_call.fn = "retry_with_backoff" /\ fn_call.pc = "sleeping"
    /\ fn_call' = [fn_call EXCEPT !.x = @ + 1, !.pc = "calling"]
    /\ UNCHANGED <<program_vars, lib_hist>>

NextRetry == WrappedReturns \/ WrappedRaises \/ SleepEnds

\* Each attempt and each sleep ends.
SpecRetry == InitRetry /\ [][NextRetry]_vars /\ WF_vars(NextRetry)

\* The vector functions called one after another, in any order.
FewGenreLists == {<<>>, <<"zydeco">>, <<"pop", "zydeco">>}
FewArtists == {"", "Queen"}
FewYears == {None, 1999}
FewPopularities == {30, 150}
FewSources == {"unknown", "library"}

GenrePrefs == {<<>>, <<<<"pop", 80>>>>, <<<<"zydeco", 50>>, <<"pop", -20>>>>}
ArtistPrefs == {<<>>, <<<<"Queen", 60>>>>}
DecadePrefs == {<<>>, <<<<"1990s", 70>>, <<" 90s", 20>>>>}
LikedVectors == {<<>>, <<encode_song(<<"pop">>, "Queen", 1999, 81, "library")>>}

EncodeSongCall ==
    /\ fn_count < MaxCalls
    /\ \E genres \in FewGenreLists, artist \in FewArtists, year \in FewYears,
          popularity \in FewPopularities, source \in FewSources :
           LET call == [fn |-> "encode_song", genres |-> genres, artist |-> artist,
                        year |-> year, popularity |-> popularity, source |-> source,
                        done |-> TRUE,
                        result |-> encode_song(genres, artist, year, popularity, source)]
           IN  /\ fn_call' = call
               /\ fn_first' = IF fn_first.fn = "none" THEN call ELSE fn_first
    /\ fn_count' = fn_count + 1
    /\ UNCHANGED program_vars

BuildUserProfileCall ==
    /\ fn_count < MaxCalls
    /\ \E genre_prefs \in GenrePrefs, artist_prefs \in ArtistPrefs,
          decade_prefs \in DecadePrefs, liked_song_vectors \in LikedVectors :
           fn_call' = [fn |-> "build_user_profile", genre_prefs |-> genre_prefs,
                       artist_prefs |-> artist_prefs, decade_prefs |-> decade_prefs,
                       liked_song_vectors |-> liked_song_vectors, done |-> TRUE,
                       result |-> build_user_profile(genre_prefs, artist_prefs,
                                                     decade_prefs, liked_song_vectors)]
    /\ fn_count' = fn_count + 1
    /\ UNCHANGED <<program_vars, fn_first>>

NextVector == EncodeSongCall \/ BuildUserProfileCall

SpecVector == Init /\ [][NextVector]_vars

\* The preference writers called one after another for one user; whether
\* the user has opted out is read from the users table at each call.
SongInfos == [genres : {<<>>, <<"pop">>, <<"pop", "rock">>}, artist : {"Queen"},
              year : {None, 1999}]
Tracks == [genres : {<<>>, <<"pop">>}, artist : {"Queen", "Daft Punk"},
           release_year : {None, 1999}]
Playlists == {<<>>} \cup {<<t>> : t \in Tracks}
                 \cup {<<t, u>> : t \in {x \in Tracks : x.artist = "Queen"},
                                  u \in {x \in Tracks : x.release_year = 1999}}
DefaultBoost == 20

PrefCall(name, opted_out, rows) ==
    /\ pref_count < MaxPrefCalls
    /\ pref_count' = pref_count + 1
    /\ pref_last' = <<name, opted_out>>
    /\ prefs' = IF opted_out THEN prefs ELSE rows
    /\ UNCHANGED <<guild_members, guild_index, turn_hist, disc_vars, player_vars,
                   fn_call, lib_hist, guild_vars, privacy_vars, autoplay_vars,
                   artist_call>>

RecordLike ==
    \E song \in SongInfos, opted_out \in BOOLEAN :
        PrefCall("record_like", opted_out, record_like(prefs, song))

RecordDislike ==
    \E song \in SongInfos, opted_out \in BOOLEAN :
        PrefCall("record_dislike", opted_out, record_dislike(prefs, song))

BoostArtist ==
    \E artist_name \in {"Queen", "Daft Punk"}, opted_out \in BOOLEAN :
        PrefCall("boost_artist", opted_out, boost_artist(prefs, artist_name, DefaultBoost))

LearnFromPlaylist ==
    \E tracks \in Playlists, opted_out \in BOOLEAN :
        PrefCall("learn_from_playlist", opted_out, learn_from_playlist(prefs, tracks))

NextPrefs == RecordLike \/ RecordDislike \/ BoostArtist \/ LearnFromPlaylist

SpecPrefs == Init /\ [][NextPrefs]_vars

\* The preference writers as coroutines, with /privacy optout and optin: a
\* call awaits is_opted_out and returns at once for an opted-out user, else
\* goes on to its get_preference / update_preference awaits, during which
\* other handlers run.
PrivacyOp(name, was_opted_out, flag, call, rows) ==
    /\ pref_last' = <<name, was_opted_out>>
    /\ users_opted_out' = flag
    /\ pw_call' = call
    /\ prefs' = rows
    /\ UNCHANGED <<guild_members, guild_index, turn_hist, disc_vars, player_vars,
                   fn_call, lib_hist, guild_vars, autoplay_vars, artist_call>>

\* set_opt_out(user_id, True)
opt_out == PrivacyOp("opt_out", users_opted_out, TRUE, pw_call, prefs) /\ UNCHANGED pref_count

\* set_opt_out(user_id, False)
opt_in == PrivacyOp("opt_in", users_opted_out, FALSE, pw_call, prefs) /\ UNCHANGED pref_count

WriterCalls ==
    [fn : {"record_like", "record_dislike"}, song : SongInfos]
        \cup [fn : {"boost_artist"}, artist_name : {"Queen"}]
        \cup [fn : {"learn_from_playlist"}, tracks : Playlists]

\* if await self.users.is_opted_out(user_id): return
WriterChecks ==
    /\ pw_call.fn = "none"
    /\ pref_count < MaxPrefCalls
    /\ pref_count' = pref_count + 1
    /\ \E call \in WriterCalls :
           PrivacyOp(call.fn, users_opted_out, users_opted_out,
                     IF users_opted_out THEN [fn |-> "none"] ELSE call, prefs)

\* The rows a call leaves once its updates are done.
RowsWritten(rows, call) ==
    CASE call.fn = "record_like" -> record_like(rows, call.song)
      [] call.fn = "record_dislike" -> record_dislike(rows, call.song)
      [] call.fn = "boost_artist" -> boost_artist(rows, call.artist_name, DefaultBoost)
      [] call.fn = "learn_from_playlist" -> learn_from_playlist(rows, call.tracks)

WriterWrites ==
    /\ pw_call.fn # "none"
    /\ PrivacyOp(pw_call.fn, FALSE, users_opted_out, [fn |-> "none"], RowsWritten(prefs, pw_call))
    /\ UNCHANGED pref_count

NextPrivacy == opt_out \/ opt_in \/ WriterChecks \/ WriterWrites

SpecPrivacy == Init /\ [][NextPrivacy]_vars

\* --------------------------- Spec: the player, its commands and its play loop
\* The run has track ids left for n more tracks, of limit in all.
RoomFor(n, limit) == next_item + n <= limit + 1

Command ==
    \E i \in Handlers :
        \/ \E kind \in {"song", "front_song", "any"}, in_voice \in BOOLEAN :
               /\ kind # "any" => RoomFor(SongRequests + 1, MaxItems)
               /\ CommandInvoked(i, kind, in_voice)
        \/ StopPressed(i)

HandlerStep ==
    \E i \in Handlers :
        \/ \E ok \in BOOLEAN : AfterConnect(i, ok)
        \/ \E found \in BOOLEAN :
               (found => RoomFor(1, MaxItems)) /\ PlaySongEnqueue(i, found)
        \/ \E found \in BOOLEAN :
               (found => RoomFor(1, MaxItems)) /\ PlayCogSongEnqueue(i, found)
        \/ AfterDisconnect(i)

LoopStep ==
    \E j \in Loops :
        \/ LoopStart(j)
        \/ \E found \in BOOLEAN :
               (found => RoomFor(1, MaxItems)) /\ AfterDiscovery(j, found)
        \/ \E ok \in BOOLEAN : AfterSession(j, ok)
        \/ \E calls \in BOOLEAN : AfterPersist(j, calls)
        \/ \E outcome \in {"url", "nothing", "raises"} : AfterResolve(j, outcome, FALSE)
        \/ \E probed \in BOOLEAN : AfterProbe(j, probed)
        \/ \E has_history \in BOOLEAN : AfterNowPlaying(j, has_history, "sent")
        \/ \E has_history \in BOOLEAN : AfterWait(j, has_history)
        \/ AfterFinalize(j)

Control ==
    \/ skip
    \/ clear
    \/ \E enabled \in BOOLEAN : autoplay_command(enabled)

Next == Command \/ HandlerStep \/ LoopStep \/ Control \/ SongEnds

Spec == Init /\ [][Next]_vars

\* ------------- SpecLoop: one play loop at a time, from its start to its exit
\* The commands arrive one after the other and none arrives while a new loop
\* task waits for its first run, so a single loop task is alive at any time.
SoloHandler == CHOOSE i \in Handlers : \A k \in Handlers : i <= k

Quiet == (\A k \in Handlers : h_kind[k] = "none") /\ PendingStarts(l_pc) = {}

SoloCommand(limit) ==
    /\ Quiet
    /\ \/ \E kind \in {"song", "any"} :
              /\ kind # "any" => RoomFor(1, limit)
              /\ CommandInvoked(SoloHandler, kind, TRUE)
       \/ StopPressed(SoloHandler)

SoloHandlerStep(limit) ==
    \/ \E ok \in BOOLEAN : AfterConnect(SoloHandler, ok)
    \/ \E found \in BOOLEAN :
           (found => RoomFor(1, limit)) /\ PlaySongEnqueue(SoloHandler, found)
    \/ AfterDisconnect(SoloHandler)

LoopTaskOf(j, buffering, limit, shows) ==
    \/ LoopStart(j)
    \/ \E found \in BOOLEAN :
           (found => RoomFor(1, limit)) /\ AfterDiscovery(j, found)
    \/ \E ok \in BOOLEAN : AfterSession(j, ok)
    \/ \E calls \in BOOLEAN : AfterPersist(j, calls)
    \/ \E outcome \in {"url", "nothing", "raises"} : AfterResolve(j, outcome, buffering)
    \/ \E probed \in BOOLEAN : AfterProbe(j, probed)
    \/ \E has_history \in BOOLEAN, shown \in shows :
           AfterNowPlaying(j, has_history, shown)
    \/ \E has_history \in BOOLEAN : AfterWait(j, has_history)
    \/ AfterFinalize(j)

LoopTask(buffering) == \E j \in Loops : LoopTaskOf(j, buffering, MaxSongs, Presentations)

LoopCommand == SoloCommand(MaxSongs)

LoopHandlerStep == SoloHandlerStep(MaxSongs)

LoopTaskStep == LoopTask(FALSE)

NextLoop == LoopCommand \/ LoopHandlerStep \/ LoopTaskStep \/ Control \/ SongEnds

SpecLoop == Init /\ [][NextLoop]_vars

\* ------------- SpecArtist: /play artist beside the one loop and /play song
\* What the artist steps leave alone besides the player's fields.
artist_frame == <<buffer_vars, fn_call, lib_hist, guild_vars, pref_last, pref_count,
                  privacy_vars, autoplay_vars, discovery_side, np_shown, session_vars,
                  fail_run>>

\* tracks_to_add = top_tracks[:5]
TopTracksCap == 5

\* The lengths of the top-track list Spotify returns.
TopCounts == {0, 1, MaxTop, TopTracksCap + 1}

BoostedArtist == "Queen"

\* PlayCog.play_artist from the defer to its next await: the voice check, then
\* the connect if the player is not connected, else the Spotify search.
ArtistInvoked(i, in_voice) ==
    /\ h_kind[i] = "none"
    /\ LET pc == IF ~in_voice THEN "idle"
                 ELSE IF ~Connected
                      THEN IF \E k \in Handlers : h_pc[k] = "connect"
                           THEN "idle" ELSE "connect"
                      ELSE "prepare"
       IN  /\ h_pc' = [h_pc EXCEPT ![i] = pc]
           /\ h_kind' = [h_kind EXCEPT ![i] = IF pc = "idle" THEN "none" ELSE "artist"]
    /\ h_wait' = [h_wait EXCEPT ![i] =
                     IF h_kind'[i] = "none" THEN {} ELSE PendingStarts(l_pc)]
    /\ UNCHANGED <<artist_frame, prefs, artist_call, queue, current, is_playing, autoplay,
                   voice_client, vc_playing, play_complete, l_pc, l_item, l_wait,
                   next_item, handed, taken, discarded, idle_age>>

\* search_artist, boost_artist and get_artist_top_tracks have returned: no
\* artist or no top track ends the command (the boost is done once the artist
\* is found); else tracks_to_add holds the first five tracks in top order and
\* the command awaits the persistence calls of the last of them.
ArtistTopTracks(i, found, n) ==
    /\ h_kind[i] = "artist" /\ h_pc[i] = "prepare" /\ h_wait[i] = {}
    /\ LET k == IF found THEN Min(n, TopTracksCap) ELSE 0
       IN  /\ artist_call' = [tracks_to_add |-> [t \in 1..k |-> next_item + t - 1],
                              left |-> k, queued_count |-> 0]
           /\ next_item' = next_item + k
           /\ h_pc' = [h_pc EXCEPT ![i] = IF k = 0 THEN "idle" ELSE "track"]
           /\ h_kind' = [h_kind EXCEPT ![i] = IF k = 0 THEN "none" ELSE "artist"]
           /\ h_wait' = [h_wait EXCEPT ![i] = IF k = 0 THEN {} ELSE PendingStarts(l_pc)]
    /\ prefs' = IF found /\ ~users_opted_out
                THEN boost_artist(prefs, BoostedArtist, DefaultBoost) ELSE prefs
    /\ UNCHANGED <<artist_frame, queue, current, is_playing, autoplay, voice_client,
                   vc_playing, play_complete, l_pc, l_item, l_wait, handed, taken,
                   discarded, idle_age>>

\* One pass of 'for yt_track in reversed(tracks_to_add)' from the return of its
\* persistence calls: put_at_front, and queued_count += 1 if that returned (an
\* exception is logged and the pass ends).  After the last pass, without an
\* await: the command ends if queued_count is 0, else it stamps last_activity
\* and starts the loop if not playing.
ArtistTrack(i) ==
    /\ h_kind[i] = "artist" /\ h_pc[i] = "track" /\ h_wait[i] = {}
    /\ LET item == artist_call.tracks_to_add[artist_call.left]
           q == QueuePutAtFront(queue, item)
           count == IF InList(item, q) THEN artist_call.queued_count + 1
                    ELSE artist_call.queued_count
           last == artist_call.left = 1
           queued == last /\ count > 0
       IN  /\ queued => (is_playing \/ HasFreeLoop)
           /\ queue' = q
           /\ handed' = Append(handed, [item |-> item, how |-> "put_at_front"])
           /\ artist_call' = [artist_call EXCEPT !.left = @ - 1, !.queued_count = count]
           /\ h_pc' = [h_pc EXCEPT ![i] = IF last THEN "idle" ELSE "track"]
           /\ h_kind' = [h_kind EXCEPT ![i] = IF last THEN "none" ELSE "artist"]
           /\ l_pc' = IF queued THEN LoopsAfterCreate(l_pc) ELSE l_pc
           /\ l_wait' = IF queued THEN WaitAfterCreate(l_wait) ELSE l_wait
           /\ h_wait' = [h_wait EXCEPT ![i] = IF last THEN {} ELSE PendingStarts(l_pc')]
           /\ idle_age' = IF queued THEN 0 ELSE idle_age
    /\ UNCHANGED <<artist_frame, prefs, current, is_playing, autoplay, voice_client,
                   vc_playing, play_complete, l_item, next_item, taken, discarded>>

\* The commands arrive one after the other; the loop runs beside them.
ArtistCommand ==
    /\ Quiet
    /\ \/ RoomFor(1, MaxSongs) /\ CommandInvoked(SoloHandler, "song", TRUE)
       \/ \E in_voice \in BOOLEAN : ArtistInvoked(SoloHandler, in_voice)

ArtistHandlerStep ==
    \/ \E ok \in BOOLEAN : AfterConnect(SoloHandler, ok)
    \/ \E found \in BOOLEAN :
           (found => RoomFor(1, MaxSongs)) /\ PlaySongEnqueue(SoloHandler, found)
    \/ \E found \in BOOLEAN, n \in TopCounts :
           RoomFor(1, MaxSongs) /\ ArtistTopTracks(SoloHandler, found, n)
    \/ ArtistTrack(SoloHandler)

NextArtist == ArtistCommand \/ ArtistHandlerStep \/ LoopTaskStep \/ SongEnds

SpecArtist == Init /\ [][NextArtist]_vars

\* ----------------- SpecIdle: the one loop, the clock and the idle sweep
\* The clock is followed for MaxIdlePasses passes after an activity, and over
\* one long play.
SweepPass == TimedeltaSeconds(idle_age) < MaxIdlePasses * SweepPeriod /\ IdleCheckPass

LongPlay == idle_age < DaySeconds /\ DayPassesPlaying

NextIdle == NextLoop \/ SweepPass \/ LongPlay

SpecIdle == Init /\ [][NextIdle]_vars

\* ------- SpecLive: the one loop and every way the connection is lost,
\* with the awaits of the loop returning and the end of a source reported.
\* Once the cog is unloaded no command or event of the cog runs.
Loaded == voice_client # "closed"

LiveEvent ==
    /\ Loaded
    /\ \/ SoloCommand(MaxItems)
       \/ SoloHandlerStep(MaxItems)
       \/ Control
       \/ Quiet /\ EveryoneLeft(SoloHandler)
       \/ cog_unload

LiveTask(j) == LoopTaskOf(j, FALSE, MaxItems, {"sent"})

\* The clock is followed from an activity over the passes of the sweep that
\* reach the idle timeout.
LiveSweep == Loaded /\ idle_age = 0 /\ IdleCheckPasses(MaxIdlePasses)

NextLive == LiveEvent \/ (\E j \in Loops : LiveTask(j)) \/ SongEnds \/ LiveSweep

Fairness ==
    /\ \A j \in Loops : WF_vars(LiveTask(j))
    /\ WF_vars(SongEnds)

SpecLive == Init /\ [][NextLive]_vars /\ Fairness

\* ---------------- SpecGuilds: two guilds, their players and their turns
\* The players are objects: MusicCog.players maps a guild id to its
\* GuildPlayer, whose queue field holds the asyncio.Queue that
\* default_factory made for it.  Every handler starts with get_player; the
\* loop works on the player it was created with.  An item is tagged with
\* the guild it was queued for.
Guilds == {TheGuild, OtherGuild}

default_queue_shared(fresh) == 0

\* field(default_factory=asyncio.Queue): a new queue object for each player
default_queue(fresh) == fresh

GuildPlayer(guild_id, fresh) ==
    [obj |-> fresh, guild_id |-> guild_id, voice_client |-> "none",
     queue |-> default_queue(fresh + 1), current |-> None, is_playing |-> FALSE,
     autoplay |-> TRUE]

\* get_player: the registry after the call (the call returns its entry for guild_id)
get_player(guild_id) ==
    IF guild_id \notin DOMAIN players
    THEN Put(players, guild_id, GuildPlayer(guild_id, next_obj))
    ELSE players

QueuesAfterGetPlayer(guild_id) ==
    IF guild_id \notin DOMAIN players /\ default_queue(next_obj + 1) \notin DOMAIN queues
    THEN Put(queues, default_queue(next_obj + 1), <<>>)
    ELSE queues

\* An operation of guild_id: get_player, then the changes to the fields of
\* the player and to the contents of its queue, with the turn tracker as the
\* operation leaves it.
GuildOp(guild_id, fields(_), contents(_), members, index) ==
    LET reg == get_player(guild_id)
        qs == QueuesAfterGetPlayer(guild_id)
        player == reg[guild_id]
    IN  /\ players' = Put(reg, guild_id, fields(player))
        /\ queues' = Put(qs, player.queue, contents(qs[player.queue]))
        /\ next_obj' = IF guild_id \in DOMAIN players THEN next_obj ELSE next_obj + 2
        /\ guild_members' = members
        /\ guild_index' = index
        /\ op_guild' = guild_id
        /\ UNCHANGED <<turn_hist, disc_vars, player_vars, fn_call, lib_hist, pref_vars>>

PlayerOp(guild_id, fields(_), contents(_)) ==
    GuildOp(guild_id, fields, contents, guild_members, guild_index)

Same(x) == x
Emptied(q) == <<>>
Exited(p) == [p EXCEPT !.is_playing = FALSE, !.current = None]

GuildGetPlayer(g) == PlayerOp(g, Same, Same)

\* /play: connects when the player has no voice client, then queues the item
GuildConnect(g) ==
    PlayerOp(g, LAMBDA p : [p EXCEPT !.voice_client = "connected"], Same)

GuildEnqueue(g) ==
    /\ g \in DOMAIN players => Len(queues[players[g].queue]) < MaxQueued
    /\ PlayerOp(g, Same, LAMBDA q : QueuePut(q, g))

\* skip: voice_client.stop() on the guild's own client, no field is written
GuildSkip(g) == PlayerOp(g, Same, Same)

\* stop: nothing without a voice client, else the queue is drained and the
\* client dropped
GuildStop(g) ==
    IF g \in DOMAIN players /\ players[g].voice_client # "none"
    THEN PlayerOp(g, LAMBDA p : [p EXCEPT !.voice_client = "none"], Emptied)
    ELSE PlayerOp(g, Same, Same)

GuildClear(g) == PlayerOp(g, Same, Emptied)

GuildAutoplay(g, enabled) ==
    PlayerOp(g, LAMBDA p : [p EXCEPT !.autoplay = enabled], Same)

GuildMemberLists == {<<>>, <<1>>, <<1, 2>>, <<2, 1>>}

\* get_next_song as far as the tracker goes: nothing for an empty channel,
\* else update_members, then advance on either way out.
MembersAfterNextSong(g, ids) ==
    IF ids = <<>> THEN guild_members
    ELSE Put(guild_members, g, MembersAfterUpdate(guild_members, g, ids))

IndexAfterNextSong(g, ids) ==
    IF ids = <<>> THEN guild_index
    ELSE IndexAfterAdvance(MembersAfterNextSong(g, ids),
                           Put(guild_index, g,
                               IndexAfterUpdate(guild_members, guild_index, g, ids)), g)

\* The top of an iteration of the guild's loop: it exits through the
\* finally, or the head of the queue becomes current, or (empty queue,
\* autoplay) it asks discovery on behalf of the members of its channel and
\* plays what it gets or exits.
GuildLoopStep(g) ==
    /\ g \in DOMAIN players
    /\ LET q == queues[players[g].queue]
       IN  IF players[g].voice_client # "connected" \/ (q = <<>> /\ ~players[g].autoplay)
           THEN PlayerOp(g, Exited, Same)
           ELSE IF q # <<>>
           THEN PlayerOp(g, LAMBDA p : [p EXCEPT !.is_playing = TRUE, !.current = Head(q)],
                         Tail)
           ELSE \E ids \in GuildMemberLists, found \in BOOLEAN :
                  /\ ids = <<>> => ~found
                  /\ GuildOp(g, LAMBDA p : IF found
                                           THEN [p EXCEPT !.is_playing = TRUE, !.current = g]
                                           ELSE Exited(p),
                             Same, MembersAfterNextSong(g, ids), IndexAfterNextSong(g, ids))

TrackerOp(guild_id, members, index) ==
    /\ guild_members' = members
    /\ guild_index' = index
    /\ op_guild' = guild_id
    /\ UNCHANGED <<turn_hist, disc_vars, player_vars, fn_call, lib_hist, pref_vars,
                   players, queues, next_obj>>

GuildUpdateMembers(g, ids) ==
    TrackerOp(g, Put(guild_members, g, MembersAfterUpdate(guild_members, g, ids)),
              Put(guild_index, g, IndexAfterUpdate(guild_members, guild_index, g, ids)))

GuildAdvance(g) ==
    TrackerOp(g, guild_members, IndexAfterAdvance(guild_members, guild_index, g))

GuildGetNextSong(g, ids) ==
    TrackerOp(g, MembersAfterNextSong(g, ids), IndexAfterNextSong(g, ids))

GuildPlayerStep ==
    \E g \in Guilds :
        \/ GuildGetPlayer(g)
        \/ GuildConnect(g)
        \/ GuildEnqueue(g)
        \/ GuildSkip(g)
        \/ GuildStop(g)
        \/ GuildClear(g)
        \/ \E enabled \in BOOLEAN : GuildAutoplay(g, enabled)
        \/ GuildLoopStep(g)

GuildTurnStep ==
    \E g \in Guilds :
        \/ \E ids \in GuildMemberLists : GuildUpdateMembers(g, ids)
        \/ GuildAdvance(g)
        \/ \E ids \in GuildMemberLists : GuildGetNextSong(g, ids)

NextGuilds == GuildPlayerStep \/ GuildTurnStep

SpecGuilds == Init /\ [][NextGuilds]_vars

\* ------------- SpecAutoplay: the autoplay selection of _play_loop, step by step
\* The channel stays connected with the same participants, the queue stays
\* empty and autoplay on, and discovery always has a song: each iteration
\* reads max_song_duration, asks _get_discovery_song up to three times, makes
\* the item current, and plays it or fails to.  A song is a record of the
\* participant it was selected for and its duration (None: not known).
voice_members == [i \in 1..NumPresent |-> i]

autoplay_frame == <<turn_hist, disc_vars, player_vars, fn_call, lib_hist, guild_vars,
                    prefs, pref_last, pref_count, privacy_vars, artist_call>>

DiscoveryTries == 3
MaxDurationSetting == 5
Durations == {None, 200, 400}

\* max_dur = await guild_crud.get_setting(...); max_seconds = int(max_dur) * 60
\* (0 when the setting is missing or the read fails)
SettingRead ==
    /\ ap_pc = "setting"
    /\ Len(ap_played) < MaxPlayed
    /\ \E max_dur \in {0, MaxDurationSetting} : max_seconds' = max_dur * 60
    /\ ap_pc' = "discover"
    /\ ap_tries' = 0
    /\ ap_item' = NoItem
    /\ UNCHANGED <<ap_current, ap_played, guild_members, guild_index, autoplay_frame>>

\* max_seconds > 0 and item.duration_seconds and item.duration_seconds > max_seconds
OverLimit(max, song) ==
    max > 0 /\ song.duration_seconds # None /\ song.duration_seconds > max

\* One pass of 'for _ in range(3)': get_next_song updates the members, takes
\* the participant whose turn it is and advances the turn; an over-limit song
\* makes the pass continue, which after the third pass leaves the for loop
\* with that song in item; then player.current = item.
DiscoveryReturns ==
    /\ ap_pc = "discover"
    /\ \E duration \in Durations :
           LET members == MembersAfterNextSong(TheGuild, voice_members)
               index == Put(guild_index, TheGuild,
                            IndexAfterUpdate(guild_members, guild_index, TheGuild,
                                             voice_members))
               song == [for_user_id |-> CurrentUser(members, index, TheGuild),
                        duration_seconds |-> duration]
               again == OverLimit(max_seconds, song) /\ ap_tries + 1 < DiscoveryTries
           IN  /\ guild_members' = members
               /\ guild_index' = IndexAfterNextSong(TheGuild, voice_members)
               /\ ap_item' = song
               /\ ap_tries' = ap_tries + 1
               /\ ap_pc' = IF again THEN "discover" ELSE "play"
               /\ ap_current' = IF again THEN ap_current ELSE song
    /\ UNCHANGED <<max_seconds, ap_played, autoplay_frame>>

\* The rest of the iteration: the song plays to its end, or its stream is not
\* resolved or the play step fails (continue); current = None.
PlayEnds ==
    /\ ap_pc = "play"
    /\ \E played \in BOOLEAN :
           ap_played' = IF played THEN Append(ap_played, ap_item.for_user_id) ELSE ap_played
    /\ ap_pc' = "setting"
    /\ ap_current' = NoItem
    /\ UNCHANGED <<max_seconds, ap_tries, ap_item, guild_members, guild_index, autoplay_frame>>

NextAutoplay == SettingRead \/ DiscoveryReturns \/ PlayEnds

SpecAutoplay == Init /\ [][NextAutoplay]_vars

PreBufferStep ==
    \/ PreBufferStart
    \/ \E buffered \in pb_resolving, found \in BOOLEAN : PreBufferResolved(buffered, found)

NextBuffer ==
    LoopCommand \/ LoopHandlerStep \/ LoopTask(TRUE) \/ Control \/ SongEnds \/ PreBufferStep

SpecBuffer == Init /\ [][NextBuffer]_vars

\* ======================================================================
\*                               CLAIMS
\* ======================================================================

\* C7: after any sequence of update_members and advance calls, either the
\* member list is empty and get_current_user returns None, or
\* 0 <= index < len(list) and get_current_user returns list[index]; the
\* lookup never indexes out of range.
C7_IndexInRange ==
    /\ DOMAIN guild_index = DOMAIN guild_members
    /\ \A g \in DOMAIN guild_members :
        \/ /\ guild_members[g] = <<>>
           /\ get_current_user(g) = None
        \/ /\ guild_members[g] # <<>>
           /\ 0 <= guild_index[g]
           /\ guild_index[g] < Len(guild_members[g])
           /\ get_current_user(g) # IndexErrorValue
           /\ get_current_user(g) = guild_members[g][guild_index[g] + 1]

\* C7 witness: an update shrank a list whose index pointed past the new end.
C7_Witness ==
    /\ tt_last.op = "update"
    /\ TheGuild \in DOMAIN guild_members
    /\ guild_members[TheGuild] # <<>>
    /\ tt_last.old_index >= Len(guild_members[TheGuild])
    /\ get_current_user(TheGuild) = guild_members[TheGuild][1]

\* C8: with an unchanged list of n >= 1 members, n consecutive advance calls
\* bring the current user back to the one they started from, and the n users
\* that were current on the way are the n members, each exactly once.
C8_RoundRobin ==
    \A g \in DOMAIN guild_members :
        LET n == Len(guild_members[g])
        IN  (n >= 1 /\ Len(tt_run) = n + 1) =>
                /\ tt_run[n + 1] = tt_run[1]
                /\ IsDistinct(SubSeq(tt_run, 1, n))
                /\ ListSet(SubSeq(tt_run, 1, n)) = ListSet(guild_members[g])

\* C8 witness: three members, three advances since the window's first entry.
C8_Witness ==
    /\ TheGuild \in DOMAIN guild_members
    /\ Len(guild_members[TheGuild]) = 3
    /\ Len(tt_run) = 4
    /\ tt_last.op = "advance"

\* C9: update_members(new) leaves the previously listed members that are still
\* in new, in their previous order, followed by the members of new that were
\* not listed, in the order given; nobody who left remains; an index that
\* points past the shrunk list is reset into range, any other index is kept.
StillPresent(old, new) == SelectSeq(old, LAMBDA m : m \in ListSet(new))

Newcomers(old, new) == SelectSeq(new, LAMBDA m : m \notin ListSet(old))

C9_UpdateMembers ==
    tt_last.op = "update" =>
        LET old == tt_last.old_members
            new == tt_last.arg
            res == guild_members[TheGuild]
        IN  /\ res = StillPresent(old, new) \o Newcomers(old, new)
            /\ ListSet(res) \subseteq ListSet(new)
            /\ guild_index[TheGuild] =
                   IF tt_last.old_index >= Len(res) THEN 0 ELSE tt_last.old_index

\* C9 witness: one update with a departure, a newcomer and a clamped index.
C9_Witness ==
    /\ tt_last.op = "update"
    /\ tt_last.known
    /\ \E m \in ListSet(tt_last.old_members) : m \notin ListSet(tt_last.arg)
    /\ \E m \in ListSet(tt_last.arg) : m \notin ListSet(tt_last.old_members)
    /\ tt_last.old_index >= Len(guild_members[TheGuild])
    /\ tt_last.old_index > 0


\* A call of get_next_song with at least one participant present has returned
\* or raised.
CallEnded == d_pc = "idle" /\ d_index0 >= 0

\* The call ended after its candidate gathering had completed.
CycleCompleted == CallEnded /\ d_tasks # <<>> /\ d_done = Len(d_tasks)

\* The turn pointer is one position past where the call's update_members left it.
TurnAdvancedOnce ==
    guild_index[TheGuild] = (d_index0 + 1) % Len(guild_members[TheGuild])

\* C3: every call of get_next_song with at least one participant present
\* advances the turn pointer exactly once, whether it returns a song, returns
\* None or fails in any stage.
C3_AlwaysAdvances == CallEnded => TurnAdvancedOnce

\* C4: if every invoked pool raises or returns nothing, get_next_song returns
\* None without raising and the turn pointer is advanced by one.
C4_AllPoolsFail ==
    (CycleCompleted /\ d_all = <<>>) =>
        /\ d_outcome.kind = "none"
        /\ TurnAdvancedOnce

\* C4 witness: two participants, all four pools raised, None came back.
C4_Witness ==
    /\ CycleCompleted
    /\ Len(d_tasks) = 4
    /\ d_failed
    /\ Len(guild_members[TheGuild]) = 2
    /\ d_outcome.kind = "none"

\* C5: with a participant present and the pools returning at least one
\* candidate outside the cooldown set, get_next_song returns a song, attributed
\* to the participant whose turn it was in this call, and the turn pointer
\* advances by exactly one position.
C5_SongReturned ==
    (CycleCompleted /\ \E i \in 1..Len(d_all) : d_all[i] \notin recent_yt_ids) =>
        /\ d_outcome.kind = "song"
        /\ d_outcome.video_id \in ListSet(d_all)
        /\ d_outcome.for_user_id = guild_members[TheGuild][d_index0 + 1]
        /\ TurnAdvancedOnce

\* C5 witness: a song for the second of two participants; the turn is back on the first.
C5_Witness ==
    /\ CycleCompleted
    /\ d_outcome.kind = "song"
    /\ Len(guild_members[TheGuild]) = 2
    /\ d_index0 = 1
    /\ d_outcome.for_user_id = guild_members[TheGuild][2]
    /\ guild_index[TheGuild] = 0

\* C6: whatever the pools return, the candidates that enter scoring have
\* pairwise distinct ids, none of them in the cooldown set (played within the
\* cooldown window, or among the last 20 plays); a returned song is one of
\* them, so its id is not in the cooldown set.
C6_Deduplicated ==
    CycleCompleted =>
        /\ IsDistinct(d_cands)
        /\ \A i \in 1..Len(d_cands) :
               d_cands[i] \notin d_window /\ d_cands[i] \notin d_bycount
        /\ d_outcome.kind = "song" =>
               /\ d_outcome.video_id \in ListSet(d_cands)
               /\ d_outcome.video_id \notin d_window \cup d_bycount

\* C6 witness: the pools returned an id twice and an id of each cooldown source;
\* one candidate was left and was returned.
C6_Witness ==
    /\ CycleCompleted
    /\ ~IsDistinct(d_all)
    /\ \E i \in 1..Len(d_all) : d_all[i] \in d_bycount /\ d_all[i] \notin d_window
    /\ Len(d_cands) = 1
    /\ d_outcome.kind = "song"

\* A loop task that has begun to run and has not ended.
LoopRunning(j) == l_pc[j] \notin {"none", "start", "done"}

\* A loop task that is resolving or playing its item.
ResolvingOrPlaying(j) == l_pc[j] \in {"resolve", "probe", "now_playing", "wait"}

\* C1: for one channel at most one instance of _play_loop is running at any
\* time, under every interleaving of the play commands with each other and with
\* a loop that is starting or exiting; so no two items of the channel are in
\* the resolving or playing phase at once.
C1_SingleLoop ==
    /\ Cardinality({j \in Loops : LoopRunning(j)}) <= 1
    /\ \A j, k \in Loops :
           (ResolvingOrPlaying(j) /\ ResolvingOrPlaying(k)) => j = k

Occurrences(list, x) == Cardinality({n \in 1..Len(list) : list[n] = x})

\* The places an item handed to the queue can be in: the queue, the current
\* slot, consumed by a loop (dequeued, no longer current), discarded.
PlacesOf(x) ==
    {place \in {"queue", "current", "consumed", "discarded"} :
        \/ place = "queue" /\ InList(x, queue)
        \/ place = "current" /\ current = x
        \/ place = "consumed" /\ InList(x, taken) /\ current # x
        \/ place = "discarded" /\ x \in discarded}

\* C2: under any interleaving of the handlers' enqueues (put, put_at_front)
\* with the loop's get_nowait no item is lost or duplicated: every item handed
\* to the queue is dequeued at most once and is at all times in exactly one of
\* the queue, the current slot, consumed by the loop, or discarded by
\* clear / stop.
C2_NoItemLostOrDuplicated ==
    \A n \in 1..Len(handed) :
        LET x == handed[n].item
        IN  /\ Occurrences(taken, x) <= 1
            /\ Occurrences(queue, x) <= 1
            /\ Cardinality(PlacesOf(x)) = 1

PositionIn(list, x) == CHOOSE n \in 1..Len(list) : list[n] = x

\* C10: put_at_front(x) leaves x in the queue; of two front inserts the later
\* one is ahead of the earlier one, both are ahead of every item added by put,
\* and the items added by put keep their order of arrival.
C10_FrontInsertOrder ==
    \A a, b \in 1..Len(handed) :
        LET x == handed[a].item
            y == handed[b].item
        IN  /\ handed[a].how = "put_at_front" =>
                   InList(x, queue) \/ InList(x, taken) \/ x \in discarded
            /\ (a < b /\ InList(x, queue) /\ InList(y, queue)) =>
                   IF handed[b].how = "put_at_front"
                   THEN PositionIn(queue, y) < PositionIn(queue, x)
                   ELSE IF handed[a].how = "put_at_front"
                        THEN PositionIn(queue, x) < PositionIn(queue, y)
                        ELSE PositionIn(queue, x) < PositionIn(queue, y)


\* ---------------------------------------------------------------- _play_loop
\* Loop task j runs the top of an iteration in this step (Selecting): it comes
\* from its first run, a continue or the end of a play, and ends, awaits
\* discovery or has taken the next item.
Selects(j) ==
    /\ l_pc[j] \in {"start", "resolve", "probe", "now_playing", "wait", "finalize"}
    /\ l_pc'[j] \in {"done", "discover", "session", "persist"}

\* C11: whenever the playback loop reaches selection with an empty queue and
\* autoplay off, it makes no discovery call and goes Idle: the task ends with
\* is_playing false and current none.
C11_IdleWhenNothingQueued ==
    [][\A j \in Loops :
          (Selects(j) /\ queue = <<>> /\ ~autoplay)
              => (l_pc'[j] = "done" /\ ~is_playing' /\ current' = None)]_vars

\* Two queued items were taken, autoplay is off and the loop has ended, still
\* connected, without a discovered item ever made.
C11_Witness ==
    /\ Len(handed) = 2 /\ taken = <<handed[1].item, handed[2].item>>
    /\ next_item = 3
    /\ ~autoplay /\ Connected /\ queue = <<>>
    /\ \E j \in Loops : l_pc[j] = "done"
    /\ ~is_playing /\ current = None

\* C12: when discovery yields no item, the playback loop stops and becomes Idle
\* (the task ends, is_playing false): it neither goes on without an item nor
\* asks discovery again.
C12_StopsWhenNothingDiscovered ==
    [][\A j \in Loops :
          (l_pc[j] = "discover" /\ l_pc'[j] # "discover" /\ l_item'[j] = None)
              => (l_pc'[j] = "done" /\ ~is_playing' /\ current' = None)]_vars

\* The loop has ended on autoplay with an empty queue, connected, and no stream
\* resolution had failed: discovery came back without an item.
C12_Witness ==
    /\ autoplay /\ Connected /\ queue = <<>> /\ taken = <<>>
    /\ \E j \in Loops : l_pc[j] = "done"
    /\ ~is_playing /\ current = None
    /\ next_item = 1 /\ fail_run = 0

\* C13: if stream resolution for the selected item fails, the playback loop
\* neither terminates nor propagates the error: it goes on to the next
\* iteration, where it ends only if the connection is gone or nothing is left
\* to play.
C13_ResolveFailureContinues ==
    [][\A j \in Loops :
          (l_pc[j] = "resolve" /\ l_pc'[j] = "done") => LoopExits]_vars

\* C14: stream-resolution failures are counted; when three have followed one
\* another the loop sleeps and resets the count before it selects again, so it
\* is never selecting, persisting or resolving with three failures in a row
\* behind it.
C14_BacksOffAfterThreeFailures ==
    \A j \in Loops :
        l_pc[j] \in {"discover", "session", "persist", "resolve"} => fail_run < 3

\* C15: when the play step of an iteration fails, the loop sets current to
\* none and continues: current never still holds the item of the play step
\* just left when the next selection begins.
C15_CurrentClearedAfterPlayFailure ==
    [][\A j \in Loops :
          (/\ l_pc[j] \in {"probe", "now_playing", "wait", "finalize"}
           /\ l_pc'[j] \in {"done", "discover", "session", "persist"})
              => current' # l_item[j]]_vars

\* C19: a persistence call of the loop that fails loses only its bookkeeping:
\* after the session calls and after the song and log_track calls, failed or
\* not, the loop holds the same item, still current, and goes on to resolve
\* and play it; after mark_completed it goes on to the next iteration, which
\* ends the loop only if the connection is gone or nothing is left to play.
C19_PersistenceFailureKeepsPlaying ==
    [][\A j \in Loops :
          /\ (l_pc[j] \in {"session", "persist"} /\ l_pc'[j] # l_pc[j])
                => /\ l_pc'[j] \in {"persist", "resolve"}
                   /\ l_item'[j] = l_item[j] /\ current' = current
                   /\ is_playing' = is_playing /\ queue' = queue
          /\ (l_pc[j] = "finalize" /\ l_pc'[j] = "done") => LoopExits]_vars

\* An item plays although no session could ever be created.
C19_Witness ==
    \E j \in Loops :
        /\ l_pc[j] = "wait" /\ vc_playing = j /\ current = l_item[j]
        /\ session_id = None /\ logged = {}

\* C20: log_track is only ever called with a session id returned by a
\* create_session call that completed earlier; no track is logged while the
\* player's session_id is unset.
C20_LoggedUnderCreatedSession ==
    /\ logged \subseteq 1..(next_session - 1)
    /\ None \notin logged

\* A track was logged under the session that a create_session call returned.
C20_Witness == session_id # None /\ logged = {session_id}


\* ------------------------------------------------------ clock and idle sweep
\* This step is a pass of the idle sweep.
SweepStep == idle_age' = idle_age + SweepPeriod

\* C16: the wait for the playback-completion signal is bounded: when the
\* signal does not come, the loop stops the source after its timeout and goes
\* on.  Whatever the timeout, a loop is never still waiting for the signal a
\* day after the player's last activity.
C16_WaitIsBounded ==
    \A j \in Loops :
        (l_pc[j] = "wait" /\ ~play_complete[j]) => idle_age < DaySeconds

\* C17: a player with is_playing true whose timestamp is older than the stuck
\* threshold (here: older than a day, beyond any threshold) has is_playing
\* false after the next pass of the sweep.
C17_SweepStopsStuckPlayer ==
    [][(SweepStep /\ is_playing /\ idle_age' >= DaySeconds) => ~is_playing']_vars

\* C18: a pass of the sweep that finds a connected player with is_playing
\* false and a last activity older than IDLE_TIMEOUT disconnects it and clears
\* voice_client, however long the player has been idle (stated here for a
\* player no command is working on); a pass never disconnects a player with
\* is_playing true.
C18_SweepDisconnectsIdlePlayer ==
    [][SweepStep =>
          /\ (/\ Connected /\ ~is_playing /\ idle_age' > IDLE_TIMEOUT
              /\ \A k \in Handlers : h_kind[k] = "none")
                => voice_client' = "none"
          /\ is_playing => voice_client' = voice_client]_vars


\* ------------------------------------------------------- _send_now_playing
\* C21: however the now-playing presentation ends, playback is not changed:
\* the source that was started keeps playing, and the loop holds the same item
\* and waits for its completion signal before it selects again; once the
\* signal is there it goes on as after any song.
C21_PresentationNeverAffectsPlayback ==
    [][\A j \in Loops :
          (l_pc[j] = "now_playing" /\ l_pc'[j] # "now_playing")
              => /\ vc_playing' = vc_playing
                 /\ play_complete' = play_complete
                 /\ ~play_complete[j]
                       => /\ l_pc'[j] = "wait"
                          /\ l_item'[j] = l_item[j] /\ current' = current
                          /\ queue' = queue /\ taken' = taken
                          /\ is_playing' = is_playing]_vars

\* The presentation failed and the item that was started plays on, the loop
\* waiting for its end.
C21_Witness ==
    \E j \in Loops :
        /\ np_shown = "failed"
        /\ l_pc[j] = "wait" /\ vc_playing = j /\ ~play_complete[j]
        /\ current = l_item[j] /\ is_playing


\* ------------------------------------------------- _gather_all_candidates
\* C23: a pool whose weight in the weights passed to get_next_song is 0 is not
\* invoked during that cycle, whatever mapping was passed; once the pool tasks
\* are made, each pool passed with a weight above 0 is invoked once.
C23_ZeroWeightPoolSkipped ==
    \A p \in ListSet(Pools) :
        p \in DOMAIN d_passed =>
            /\ d_passed[p] = 0 => ~InList(p, d_tasks)
            /\ (d_passed[p] > 0 /\ d_pc = "gather")
                  => Cardinality({n \in 1..Len(d_tasks) : d_tasks[n] = p}) = 1


\* C24: softmax_select returns None exactly when the top-K prefix of the
\* scored list is empty, the only entry of a one-entry prefix whatever the
\* draw, and otherwise, for every draw and every temperature (0 included),
\* one of the first min(top_k, len) candidates.
C24_SelectsWithinTopK ==
    (fn_call.fn = "softmax_select" /\ fn_call.done) =>
        LET scored == fn_call.scored
            n == Min(fn_call.top_k, Len(scored))
        IN  /\ fn_call.result = None <=> n = 0
            /\ n = 1 => fn_call.result = scored[1][1]
            /\ n >= 2 => fn_call.result \in {scored[i][1] : i \in 1..n}

\* The highest draw at temperature 0 with two equal scores and a candidate
\* beyond the top-K: the second entry of the prefix is returned.
C24_Witness ==
    /\ fn_call.fn = "softmax_select" /\ fn_call.done
    /\ fn_call.temperature = 0 /\ fn_call.r = ProbUnit - 1
    /\ fn_call.top_k = 2 /\ Len(fn_call.scored) > 2
    /\ fn_call.scored[1][2] = fn_call.scored[2][2]
    /\ fn_call.result = fn_call.scored[2][1]


\* C25: for every genres list, artist, year, popularity and source,
\* encode_song returns a vector of exactly 128 entries, each in [0, 1]; the
\* entries outside 0..63 do not depend on the genres, those outside 64..79
\* not on the artist, those outside 80..95 not on the year, those outside
\* 96..111 not on the popularity and those outside 112..127 not on the
\* source.
AgreeOutside(v, w, start, end) ==
    \A i \in Dims : (i < start \/ i >= end) => v[i] = w[i]

C25_EncodedWithinRanges ==
    (fn_call.fn = "encode_song" /\ fn_call.done) =>
        LET c == fn_call
            v == c.result
        IN  /\ DOMAIN v = 0..127
            /\ \A i \in DOMAIN v : 0 <= v[i] /\ v[i] <= One
            /\ \A g \in GenreLists :
                   AgreeOutside(v, encode_song(g, c.artist, c.year, c.popularity, c.source),
                                GENRE_START, GENRE_END)
            /\ \A a \in Artists :
                   AgreeOutside(v, encode_song(c.genres, a, c.year, c.popularity, c.source),
                                ARTIST_START, ARTIST_END)
            /\ \A y \in Years :
                   AgreeOutside(v, encode_song(c.genres, c.artist, y, c.popularity, c.source),
                                TEMPORAL_START, TEMPORAL_END)
            /\ \A p \in Popularities :
                   AgreeOutside(v, encode_song(c.genres, c.artist, c.year, p, c.source),
                                ENERGY_START, ENERGY_END)
            /\ \A src \in Sources :
                   AgreeOutside(v, encode_song(c.genres, c.artist, c.year, c.popularity, src),
                                NOVELTY_START, NOVELTY_END)

\* A call with every kind of data, an unrecognized genre and a popularity
\* above 1: every group of slots is written and the popularity slot is 1.
C25_Witness ==
    /\ fn_call.fn = "encode_song" /\ fn_call.done
    /\ fn_call.genres = <<"pop", "zydeco">> /\ fn_call.artist = "Daft Punk"
    /\ fn_call.year = 2030 /\ fn_call.popularity = 150 /\ fn_call.source = "similar"
    /\ fn_call.result[62] = 40 /\ fn_call.result[ARTIST_START + 4] = One
    /\ fn_call.result[TEMPORAL_START + 7] = One /\ fn_call.result[ENERGY_START] = One
    /\ fn_call.result[NOVELTY_START + 1] = 85


C27_EmptyProfileIsBiasOnly ==
    (/\ fn_call.fn = "build_user_profile"
     /\ fn_call.genre_prefs = <<>> /\ fn_call.artist_prefs = <<>>
     /\ fn_call.decade_prefs = <<>> /\ fn_call.liked_song_vectors = <<>>)
        => /\ DOMAIN fn_call.result = 0..127
           /\ \A i \in DOMAIN fn_call.result : fn_call.result[i] # 0 <=> i \in {112, 113}

\* An all-empty profile built after a song was encoded.
C27_Witness ==
    /\ fn_call.fn = "build_user_profile" /\ fn_first.fn = "encode_song"
    /\ fn_call.genre_prefs = <<>> /\ fn_call.artist_prefs = <<>>
    /\ fn_call.decade_prefs = <<>> /\ fn_call.liked_song_vectors = <<>>
    /\ fn_call.result[112] = 40 /\ fn_call.result[113] = 30


\* C28: after any sequence of record_like, record_dislike, boost_artist
\* (default amount) and learn_from_playlist calls, every stored affinity
\* score lies in [-1, 1] and every genre and decade score in [0, 1].
C28_StoredScoresClamped ==
    \A k \in DOMAIN prefs :
        /\ -One <= prefs[k] /\ prefs[k] <= One
        /\ k[1] \in {"genre", "decade"} => prefs[k] >= 0

\* Both floors have acted: after a dislike the artist is stored at -1 and
\* the genre of the song at 0.
C28_Witness ==
    /\ pref_last = <<"record_dislike", FALSE>>
    /\ get_preference(prefs, "artist", "queen") = -One
    /\ get_preference(prefs, "genre", "pop") = 0 /\ <<"genre", "pop">> \in DOMAIN prefs


\* C29: a pre-buffer task that changes an item's url or _next_url when its
\* resolution finishes does so only while the item it resolved is still the
\* head of the queue.
C29_PreBufferWritesOnlyToHead ==
    [][\A x \in pb_resolving :
           (x \notin pb_resolving' /\ (next_url' # next_url \/ has_url' # has_url))
               => (queue # <<>> /\ Head(queue) = x)]_vars


GuildView(g) ==
    [player |-> IF g \in DOMAIN players THEN <<players[g]>> ELSE <<>>,
     queue |-> IF g \in DOMAIN players THEN <<queues[players[g].queue]>> ELSE <<>>,
     members |-> IF g \in DOMAIN guild_members THEN <<guild_members[g]>> ELSE <<>>,
     index |-> IF g \in DOMAIN guild_index THEN <<guild_index[g]>> ELSE <<>>]

C22_GuildsIndependent ==
    [][/\ \A g \in Guilds : g # op_guild' => GuildView(g)' = GuildView(g)
       /\ \A g \in DOMAIN players :
              g \in DOMAIN players' /\ players'[g].obj = players[g].obj]_vars

\* Both guilds have a player with an item of their own queued and a turn
\* order of their own, and the last operation was on the other guild.
C22_Witness ==
    /\ DOMAIN players = Guilds /\ op_guild = OtherGuild
    /\ queues[players[TheGuild].queue] = <<TheGuild>>
    /\ queues[players[OtherGuild].queue] = <<OtherGuild>>
    /\ players[TheGuild].obj # players[OtherGuild].obj
    /\ DOMAIN guild_members = Guilds
    /\ guild_members[TheGuild] = <<1, 2>> /\ guild_index[TheGuild] = 1
    /\ guild_members[OtherGuild] = <<2, 1>> /\ guild_index[OtherGuild] = 0

\* C33: when update_members removes only participants other than the one
\* whose turn it is (that participant is still present), get_current_user
\* returns the same participant after the update as before it.  Checked for
\* updates that only remove: nobody joins in the same call.
C33_TurnKeptWhenOthersLeave ==
    (/\ tt_last.op = "update" /\ tt_last.known
     /\ tt_last.old_index < Len(tt_last.old_members)
     /\ InList(tt_last.old_members[tt_last.old_index + 1], tt_last.arg)
     /\ \E m \in ListSet(tt_last.old_members) : ~InList(m, tt_last.arg)
     /\ \A m \in ListSet(tt_last.arg) : InList(m, tt_last.old_members))
        => get_current_user(TheGuild) = tt_last.old_members[tt_last.old_index + 1]

\* C37: for a year in 1950..2029 encode_song sets exactly one decade-bucket
\* slot, 80 + (year - 1950) div 10, to 1.0 and records (year mod 10)/10 in
\* slot 88 + bucket; for a missing, non-numeric (None here) or out-of-range
\* year every temporal slot 80..95 is left at 0.
TemporalSlotsOf(year) ==
    [i \in TEMPORAL_START..(TEMPORAL_END - 1) |->
        IF year # None /\ 1950 <= year /\ year <= 2029
        THEN IF i = TEMPORAL_START + (year - 1950) \div 10 THEN One
             ELSE IF i = TEMPORAL_START + 8 + (year - 1950) \div 10 THEN (year % 10) * 10
             ELSE 0
        ELSE 0]

C37_DecadeBucket ==
    (fn_call.fn = "encode_song" /\ fn_call.done) =>
        \A i \in TEMPORAL_START..(TEMPORAL_END - 1) :
            fn_call.result[i] = TemporalSlotsOf(fn_call.year)[i]

\* C38: while the user is opted out of preference tracking no step of
\* record_like, record_dislike, boost_artist or learn_from_playlist changes
\* the stored preference scores of the user.
C38_NoWriteWhileOptedOut ==
    [][users_opted_out => prefs' = prefs]_vars

\* C39: a call wrapped by retry_with_backoff(retries = r) invokes the
\* wrapped function at most r + 1 times; it ends with the attempt that
\* succeeded or, after r + 1 failures, by re-raising; the sleep that follows
\* the failure of attempt k (x = k - 1 failures handled before it) is
\* base * 2^x plus a jitter in [0, 1]; and it ends whenever every attempt
\* and every sleep ends.  With the retries of get_stream_url: at most 3
\* attempts.
RetryEnded == fn_call.pc \in {"returned", "raised"}

C39_RetryBounded ==
    /\ [](fn_call.fn = "retry_with_backoff" =>
            /\ fn_call.calls <= fn_call.retries + 1
            /\ Len(fn_call.sleeps) <= fn_call.retries
            /\ \A k \in 1..Len(fn_call.sleeps) :
                   LET base == fn_call.backoff_in_seconds * Pow2(k - 1) * One
                   IN  base <= fn_call.sleeps[k] /\ fn_call.sleeps[k] <= base + One
            /\ RetryEnded => fn_call.calls = Len(fn_call.sleeps) + 1
            /\ fn_call.pc = "raised" => fn_call.calls = fn_call.retries + 1
            /\ fn_call.pc = "sleeping" => fn_call.calls = Len(fn_call.sleeps)
            /\ fn_call.retries = StreamUrlRetries => fn_call.calls <= 3)
    /\ <>RetryEnded

\* get_stream_url's wrapper after three failed extractions: it slept about
\* 1 s and about 2 s and has re-raised.
C39_Witness ==
    /\ fn_call.fn = "retry_with_backoff" /\ fn_call.retries = StreamUrlRetries
    /\ fn_call.backoff_in_seconds = 1 /\ fn_call.pc = "raised" /\ fn_call.calls = 3
    /\ fn_call.sleeps = <<150, 200>>

\* C32: whenever a playback loop terminates, by a normal exit or by an
\* exception that leaves an iteration (stream resolution raising), is_playing
\* is false and current is none right after; and is_playing is never true
\* while no loop is running or about to run.
C32_LoopEndsIdle ==
    /\ [][\A j \in Loops :
              (l_pc[j] # "done" /\ l_pc'[j] = "done") => (~is_playing' /\ current' = None)]_vars
    /\ []((\A j \in Loops : l_pc[j] \in {"none", "done"}) => ~is_playing)

\* The loop has ended although the channel is connected and an item is
\* queued: stream resolution of the item it had taken raised.
C32_Witness ==
    /\ Connected /\ queue # <<>> /\ taken # <<>>
    /\ \A j \in Loops : l_pc[j] \in {"none", "done"}
    /\ \E j \in Loops : l_pc[j] = "done"
    /\ ~is_playing /\ current = None

\* C34: with a max_song_duration setting above 0, the autoplay path never
\* makes current a discovered song whose known duration exceeds the limit,
\* also when all three discovery results of an iteration exceed it.
C34_NoOverLimitSongCurrent ==
    (ap_current # NoItem /\ max_seconds > 0 /\ ap_current.duration_seconds # None)
        => ap_current.duration_seconds <= max_seconds

\* C31: with a fixed set of n participants present and discovery always able
\* to return a song, any n discovery songs played one after another were
\* selected for n distinct participants.
C31_PlayedSongsRotate ==
    \A i \in 1..(Len(ap_played) - Len(voice_members) + 1) :
        IsDistinct(SubSeq(ap_played, i, i + Len(voice_members) - 1))

\* C35: after the Stop control has cleared the queue and stopped playback,
\* no new item becomes current until a new play command arrives, also while
\* Stop still awaits the disconnect with autoplay on.  (A play-start record
\* is logged only for an item that has become current, so the formula
\* follows current.)  In SpecLoop no command arrives while Stop awaits.
C35_NothingStartsAfterStop ==
    [][h_kind[SoloHandler] = "stop" => (current' = current \/ current' = None)]_vars

\* The order in which the items are played: those dequeued, then those waiting.
PlayOrder == taken \o queue

\* C36: once /play artist has gone through its tracks, every track is played
\* or waits to be played (unless a clear or stop removed it), the tracks are
\* played in top-track order, and each track that still waits is ahead of
\* every waiting item that was requested before the command's tracks, also
\* when the loop has dequeued items between the insertions.
C36_ArtistTracksFirstInOrder ==
    (artist_call.tracks_to_add # <<>> /\ artist_call.left = 0) =>
        LET tracks == artist_call.tracks_to_add
        IN  /\ \A t \in ListSet(tracks) : InList(t, PlayOrder) \/ t \in discarded
            /\ \A a, b \in 1..Len(tracks) :
                   (a < b /\ InList(tracks[a], PlayOrder) /\ InList(tracks[b], PlayOrder))
                       => PositionIn(PlayOrder, tracks[a]) < PositionIn(PlayOrder, tracks[b])
            /\ \A t \in ListSet(tracks), x \in ListSet(queue) :
                   (InList(t, queue) /\ x < tracks[1])
                       => PositionIn(queue, t) < PositionIn(queue, x)

=============================================================================
